---- MODULE Spec2Model ----
(***************************************************************************)
(* A model of the API dispatch and diagnostic task orchestration layer of  *)
(* sysom_mcp:                                                              *)
(*   - src/src/tools/lib/diagnosis_helper.py  DiagnosisMCPHelper.execute   *)
(*     and _wait_for_result (submit a diagnosis, poll for its result);     *)
(*   - src/src/tools/lib/openapi_client.py    AlibabaCloudSDKClient        *)
(*   - src/src/tools/lib/api_registry.py      the SDK-only route registry  *)
(*   - src/src/mcp/lib/api_registry.py        the registry with support    *)
(*     modes (register_framework / register_sdk).                          *)
(*                                                                         *)
(* Python values are tagged records: [t |-> "none"], [t |-> "str", ...],   *)
(* [t |-> "dict", v |-> f] with f a function from keys to values.  A       *)
(* payload text is a sequence of one-character strings; a message is a     *)
(* sequence of string fragments (their concatenation is the message).     *)
(* Message literals are English renderings of the Chinese literals of the  *)
(* source.                                                                 *)
(***************************************************************************)
EXTENDS Integers, Sequences, FiniteSets, TLC

(* ------------------------------ bounds --------------------------------- *)
\* Largest value of the helper's timeout (seconds) that is explored.
MaxTimeout == 3
\* Largest value of the helper's poll_interval (seconds) that is explored.
MaxInterval == 1
\* The event loop's clock runs from 0 to MaxClock.
MaxClock == 4
\* At most MaxPolls get_diagnosis_result calls are issued per invocation.
MaxPolls == 3

\* The invocations of execute (one helper and one client each).
Invs == {1, 2}

(* --------------------------- Python values ------------------------------ *)
PyNone == [t |-> "none"]
\* A Python str: the sequence of fragments whose concatenation it is
\* (<<>> is the empty string; no fragment is ever "").
PyStr(frags) == [t |-> "str", v |-> frags]
PyInt(n) == [t |-> "int", v |-> n]
PyList(items) == [t |-> "list", v |-> items]
PyDict(f) == [t |-> "dict", v |-> f]
EmptyDict == [k \in {} |-> PyNone]

IsNone(x) == x.t = "none"
IsStr(x) == x.t = "str"
IsDict(x) == x.t = "dict"

\* dict.get(key, default) on a Python dict value
DictGet(d, key, default) == IF key \in DOMAIN d.v THEN d.v[key] ELSE default

Min(a, b) == IF a <= b THEN a ELSE b

\* Python truthiness of an optional string: None and "" are falsy.
Truthy(x) == IsStr(x) /\ \E k \in DOMAIN x.v : x.v[k] # ""
\* `a or b`
PyOr(a, b) == IF Truthy(a) THEN a ELSE b
\* s occurs in m as a contiguous run of fragments (`s in m`).
Contains(m, s) == \E k \in 0..(Len(m) - Len(s)) : SubSeq(m, k + 1, k + Len(s)) = s

(* ------------------------- DiagnoseResultCode --------------------------- *)
SUCCESS == "Success"
TASK_CREATE_FAILED == "TaskCreateFailed"
TASK_EXECUTE_FAILED == "TaskExecuteFailed"
TASK_TIMEOUT == "TaskTimeout"
RESULT_PARSE_FAILED == "ResultParseFailed"
GET_RESULT_FAILED == "GetResultFailed"
DiagnoseResultCode == {SUCCESS, TASK_CREATE_FAILED, TASK_EXECUTE_FAILED,
                       TASK_TIMEOUT, RESULT_PARSE_FAILED, GET_RESULT_FAILED}

(* ------------- tools/lib/api_registry.py: SDK-only registry ------------- *)
INVOKE_DIAGNOSIS == "invoke_diagnosis"
GET_DIAGNOSIS_RESULT == "get_diagnosis_result"

SDKRoute(request_model, response_model, client_method) ==
    [t |-> "sdk_route", request_model |-> request_model,
     response_model |-> response_model, client_method |-> client_method]

\* APIRegistry.register_sdk: `routes` is the _routes dict, a function whose
\* domain is the set of registered names.
ToolsRegisterSdk(routes, api_name, request_model, response_model, client_method) ==
    LET sdk_route == SDKRoute(request_model, response_model, client_method)
    IN  IF api_name \in DOMAIN routes
        THEN [routes EXCEPT ![api_name].sdk_route = sdk_route]
        ELSE [n \in DOMAIN routes \cup {api_name} |->
                IF n = api_name
                THEN [t |-> "route", api_name |-> api_name, sdk_route |-> sdk_route]
                ELSE routes[n]]

\* APIRegistry.get_route
ToolsGetRoute(routes, api_name) ==
    IF api_name \in DOMAIN routes THEN routes[api_name] ELSE PyNone

\* APIRegistry.get_sdk_route
ToolsGetSdkRoute(routes, api_name) ==
    LET route == ToolsGetRoute(routes, api_name)
    IN  IF ~IsNone(route) /\ ~IsNone(route.sdk_route) THEN route.sdk_route ELSE PyNone

\* `if registry.get_route(api_name) is None: registry.register_sdk(...)`
EnsureRegistered(routes, api_name, request_model, response_model) ==
    IF IsNone(ToolsGetRoute(routes, api_name))
    THEN ToolsRegisterSdk(routes, api_name, request_model, response_model, api_name)
    ELSE routes

(* ------------ tools/lib/openapi_client.py: AlibabaCloudSDKClient -------- *)
\* A request object built from a TeaModel class.
TeaRequest(model, fields) == [t |-> "tea", model |-> model, fields |-> fields]

\* What the signed client does with one call:
\*   ctor_raise  the lazy construction of the signed client raises
\*               (only possible while the client is not built yet);
\*   call_raise  the client method raises (transport fault);
\*   resp        it answers with a status code and a body.
CtorRaise == [kind |-> "ctor_raise"]
CallRaise == [kind |-> "call_raise"]
Resp(status_code, body) == [kind |-> "resp", status_code |-> status_code, body |-> body]

\* The classes a request class derives from (itself included): the request
\* classes of the SDK derive from TeaModel only; a caller may also pass an
\* instance of a class of its own that extends one of them.
Bases(model) ==
    IF model = "ListInstancesRequestEx"
    THEN {"ListInstancesRequestEx", "ListInstancesRequest"}
    ELSE {model}

\* isinstance(request, TeaModel) and isinstance(request, request_model)
IsInstanceAnyTea(request, request_model) == request.t = "tea"

IsInstance(request, request_model) ==
    request.t = "tea" /\ request_model \in Bases(request.model)

\* return False, None, <message>
FailureSilent(frags) == [success |-> FALSE, response_data |-> PyNone, error_msg |-> PyNone]

Failure(frags) == [success |-> FALSE, response_data |-> PyNone, error_msg |-> PyStr(frags)]

\* AlibabaCloudSDKClient.call_api as a function of the registry, the
\* request and what the signed client does.  The body is given as
\* TeaModel.to_map() renders it (a dict), or None for an absent body.
SdkCallApi(routes, api_name, request, remote) ==
    LET sdk_route == ToolsGetSdkRoute(routes, api_name)
    IN  IF IsNone(sdk_route)
        THEN Failure(<<"api ", api_name, " has no SDK route registered">>)
        ELSE IF IsNone(request)
        THEN Failure(<<"an SDK call needs a TeaModel request object">>)
        ELSE IF request.t # "tea"
        THEN Failure(<<"an SDK call needs a TeaModel request, got: ", request.t>>)
        ELSE IF ~IsInstance(request, sdk_route.request_model)
        THEN Failure(<<"wrong request type, expected ", sdk_route.request_model,
                       ", got: ", request.model>>)
        ELSE IF remote.kind \in {"ctor_raise", "call_raise"}
        THEN Failure(<<"API call failed, error: ", remote.kind>>)
        ELSE IF remote.status_code = 200
        THEN [success |-> TRUE, response_data |-> remote.body, error_msg |-> PyNone]
        ELSE IF IsNone(remote.body)
        THEN Failure(<<"API call failed, error: ",
                       "'NoneType' object has no attribute 'code'">>)
        ELSE Failure(<<"call failed, status: ">>
                     \o DictGet(remote.body, "code", PyStr(<<"None">>)).v
                     \o <<", error: ">>
                     \o DictGet(remote.body, "message", PyStr(<<"None">>)).v)

\* _get_client: the cached signed client after the call (TRUE: built).
SdkClientAfter(routes, api_name, request, remote, built) ==
    LET sdk_route == ToolsGetSdkRoute(routes, api_name)
        reaches_client == /\ ~IsNone(sdk_route)
                          /\ ~IsNone(request)
                          /\ IsInstance(request, sdk_route.request_model)
    IN  built \/ (reaches_client /\ remote.kind # "ctor_raise")

(* ----------- tools/lib/diagnosis_helper.py: DiagnosisMCPHelper ---------- *)
\* result[:200] keeps at most this many characters of the raw payload.
RawPrefixLen == 200

\* The payload texts a task can carry, and what json.loads makes of them.
TextObject == <<"{", "\"", "k", "\"", ":", "1", "}">>
TextArray == <<"[", "1", "]">>
TextGarbage == <<"o", "o", "p", "s">>
TextEmpty == << >>
Texts == {TextObject, TextArray, TextGarbage, TextEmpty}

\* json.loads on the texts above: the decoded value, or JSONDecodeError.
JsonLoads(text) ==
    IF text = TextObject THEN [ok |-> TRUE, value |-> PyDict([k |-> PyInt(1)])]
    ELSE IF text = TextArray THEN [ok |-> TRUE, value |-> PyList(<<PyInt(1)>>)]
    ELSE [ok |-> FALSE, error |-> <<"Expecting value: line 1 column 1 (char 0)">>]

\* str(value) for a payload that is neither text nor dict
PyRepr(value) ==
    IF IsNone(value) THEN <<"None">>
    ELSE IF value.t = "list" THEN <<"[", "1", "]">>
    ELSE <<"?">>

Returned(response) == [kind |-> "return", response |-> response]
Raised(why) == [kind |-> "raise", why |-> why]

\* DiagnosisMCPResponse(...): pydantic validates code: str, message: str,
\* task_id: str, result: Dict[str, Any]; a value of another type raises
\* ValidationError out of the constructor.
DiagnosisMCPResponse(task_id, code, message, result) ==
    IF IsStr(task_id) /\ IsStr(message) /\ IsDict(result)
    THEN Returned([code |-> code, message |-> message.v, task_id |-> task_id.v,
                   result |-> result.v])
    ELSE Raised("ValidationError")

DefaultCreateFailed == PyStr(<<"failed to start the diagnosis">>)
DefaultGetFailed == PyStr(<<"failed to get the result">>)
DefaultExecuteFailed == PyStr(<<"task execution failed">>)

\* lines 128 and 221: response_data.get("code") == "Success"
ResponseCodeOkDefaulted(response_data) ==
    DictGet(response_data, "code", PyStr(<<"Success">>)) = PyStr(<<"Success">>)

ResponseCodeOk(response_data) ==
    DictGet(response_data, "code", PyNone) = PyStr(<<"Success">>)

\* execute, lines 116-135: what the answer of the submit call leads to:
\* a returned response, a raised exception, or the poll loop ("wait").
SubmitStep(tri) ==
    IF ~tri.success
    THEN DiagnosisMCPResponse(PyStr(<<>>), TASK_CREATE_FAILED,
                              PyOr(tri.error_msg, DefaultCreateFailed), PyDict(EmptyDict))
    ELSE IF ~IsDict(tri.response_data)
    THEN Raised("AttributeError")
    ELSE IF ResponseCodeOk(tri.response_data)
    THEN LET data == DictGet(tri.response_data, "data", PyDict(EmptyDict))
         IN  IF ~IsDict(data)
             THEN Raised("AttributeError")
             ELSE [kind |-> "wait", task_id |-> DictGet(data, "task_id", PyStr(<<>>))]
    ELSE DiagnosisMCPResponse(PyStr(<<>>), TASK_CREATE_FAILED,
                              DictGet(tri.response_data, "message", DefaultCreateFailed),
                              PyDict(EmptyDict))

\* _wait_for_result, line 200: the loop condition.
WithinTimeoutUnlessDisabled(time, start, limit) == limit <= 0 \/ (time - start) < limit

WithinTimeoutSharedOrigin(time, start, limit) == time < limit

WithinTimeoutInclusive(time, start, limit) == (time - start) <= limit

WithinTimeout(time, start, limit) == (time - start) < limit

\* _wait_for_result, line 233: the timeout message.
TimeoutMessageNoId(timeout, task_id) ==
    PyStr(<<"diagnosis timed out (", ToString(timeout), " s)">>)

TimeoutMessage(timeout, task_id) ==
    PyStr(<<"diagnosis timed out (", ToString(timeout), " s), task_id: ">> \o task_id.v)

\* _wait_for_result returns (code, message, result).
WaitReturn(code, message, result) ==
    [kind |-> "return", code |-> code, message |-> message, result |-> result]

\* _wait_for_result, line 224: task_status == "Fail"
StatusFailedAsError(task_status) == task_status = PyStr(<<"error">>)

StatusFailed(task_status) == task_status = PyStr(<<"Fail">>)

\* _wait_for_result, line 226: task_status == "Success"
StatusSucceededLowercase(task_status) == task_status = PyStr(<<"success">>)

StatusSucceeded(task_status) == task_status = PyStr(<<"Success">>)

\* _wait_for_result, lines 213-214: the poll call failed.
PollCallFailedRetried(tri) == [kind |-> "sleep"]

PollCallFailed(tri) ==
    WaitReturn(GET_RESULT_FAILED, PyOr(tri.error_msg, DefaultGetFailed), PyNone)

\* _wait_for_result, lines 213-231: what the answer of one poll leads to:
\* the tuple it returns, a raised exception, or a sleep before the next poll.
PollStep(tri) ==
    IF ~tri.success
    THEN PollCallFailed(tri)
    ELSE IF ~IsDict(tri.response_data)
    THEN Raised("AttributeError")
    ELSE IF ResponseCodeOk(tri.response_data)
    THEN LET data == DictGet(tri.response_data, "data", PyDict(EmptyDict))
         IN  IF ~IsDict(data)
             THEN Raised("AttributeError")
             ELSE LET task_status == DictGet(data, "status", PyNone)
                  IN  IF StatusFailed(task_status)
                      THEN WaitReturn(TASK_EXECUTE_FAILED,
                                      DictGet(data, "err_msg", DefaultExecuteFailed), PyNone)
                      ELSE IF StatusSucceeded(task_status)
                      THEN WaitReturn(SUCCESS, PyStr(<<>>), DictGet(data, "result", PyNone))
                      ELSE [kind |-> "sleep"]
    ELSE WaitReturn(GET_RESULT_FAILED,
                    DictGet(tri.response_data, "message", DefaultGetFailed), PyNone)

\* execute, line 151: result={"raw": result}
RawResultDropped(result) == PyDict(EmptyDict)

RawResult(result) == PyDict([raw |-> result])

\* execute, lines 141-173: the response built from what _wait_for_result
\* returned.
FinishStep(task_id, code, message, result) ==
    IF code = SUCCESS
    THEN IF IsStr(result)
         THEN LET decoded == JsonLoads(result.v)
              IN  IF ~decoded.ok
                  THEN DiagnosisMCPResponse(
                           task_id, RESULT_PARSE_FAILED,
                           PyStr(<<"failed to parse the result: ">> \o decoded.error
                                 \o <<", raw result: ">>
                                 \o SubSeq(result.v, 1, Min(Len(result.v), RawPrefixLen))),
                           RawResult(result))
                  ELSE DiagnosisMCPResponse(task_id, SUCCESS, PyStr(<<>>), decoded.value)
         ELSE IF IsDict(result)
         THEN DiagnosisMCPResponse(task_id, SUCCESS, PyStr(<<>>), result)
         ELSE DiagnosisMCPResponse(
                  task_id, RESULT_PARSE_FAILED,
                  PyStr(<<"unexpected result type: ", result.t,
                          ", expected a string or a dict">>),
                  PyDict([raw |-> PyStr(PyRepr(result))]))
    ELSE DiagnosisMCPResponse(task_id, code, message, PyDict(EmptyDict))

(* ------------------------ the remote platform --------------------------- *)
TaskIds == {<<"T1">>, <<"T2">>}
RemoteMessages == {PyStr(<<>>), PyStr(<<"denied">>)}

\* Bodies of a non-Success answer: the code is an error code or absent, the
\* message is absent, empty or a text.
ErrorBodies ==
    {PyDict([code |-> PyStr(<<"InternalError">>)]), PyDict(EmptyDict)}
    \cup {PyDict([code |-> PyStr(<<"InternalError">>), message |-> m]) : m \in RemoteMessages}

\* Bodies the invoke_diagnosis operation can answer with; None is an
\* answer without a body.
InvokeBodies ==
    {PyNone}
    \cup ErrorBodies
    \cup {PyDict([code |-> PyStr(<<"Success">>)]),
          PyDict([code |-> PyStr(<<"Success">>), data |-> PyDict(EmptyDict)])}
    \cup {PyDict([code |-> PyStr(<<"Success">>),
                  data |-> PyDict([task_id |-> PyStr(tid)])]) : tid \in TaskIds}

\* The result payloads of a finished task: absent, a text, a dict, a list.
Payloads ==
    {PyStr(text) : text \in Texts}
    \cup {PyDict([summary |-> PyStr(<<"ok">>)]), PyList(<<PyInt(1)>>)}

TaskData ==
    {PyDict([status |-> PyStr(<<"Running">>)]),
     PyDict(EmptyDict),
     PyDict([status |-> PyStr(<<"Fail">>)]),
     PyDict([status |-> PyStr(<<"Success">>)])}
    \cup {PyDict([status |-> PyStr(<<"Fail">>), err_msg |-> m]) : m \in RemoteMessages}
    \cup {PyDict([status |-> PyStr(<<"Success">>), result |-> r]) : r \in Payloads}

\* Bodies the get_diagnosis_result operation can answer with.
ResultBodies ==
    {PyNone}
    \cup ErrorBodies
    \cup {PyDict([code |-> PyStr(<<"Success">>)])}
    \cup {PyDict([code |-> PyStr(<<"Success">>), data |-> d]) : d \in TaskData}

\* What the signed client can do with a call whose answers are `bodies`.
RemoteOutcomes(bodies, built) ==
    (IF built THEN {} ELSE {CtorRaise})
    \cup {CallRaise}
    \cup {Resp(200, b) : b \in bodies}
    \cup {Resp(500, b) : b \in {PyNone, PyDict([code |-> PyStr(<<"InternalError">>)])}}

(* --------- mcp/lib/api_registry.py: registry with support modes -------- *)
\* At most MaxRegs registrations are made.
MaxRegs == 4

FRAMEWORK_ONLY == "framework_only"
SDK_ONLY == "sdk_only"
BOTH == "both"

\* str.upper() on the HTTP methods that are registered
Upper(method) ==
    IF method \in {"get", "Get", "GET"} THEN "GET"
    ELSE IF method \in {"post", "Post", "POST"} THEN "POST"
    ELSE method

\* FrameworkRoute.__init__
FrameworkRoute(url_pattern, method, service_name) ==
    [t |-> "framework_route", url_pattern |-> url_pattern, method |-> Upper(method),
     service_name |-> service_name]

\* APIRoute.__init__
APIRoute(api_name, support_mode, framework_route, sdk_route) ==
    [t |-> "route", api_name |-> api_name, support_mode |-> support_mode,
     framework_route |-> framework_route, sdk_route |-> sdk_route]

\* self._routes[api_name] = route
SetRouteAlone(table, api_name, route) == [n \in {api_name} |-> route]

SetRoute(table, api_name, route) ==
    [n \in DOMAIN table \cup {api_name} |-> IF n = api_name THEN route ELSE table[n]]

\* APIRegistry.register_framework: the _routes table after the call.
RegisterFrameworkReplacing(table, api_name, url_pattern, method, service_name) ==
    SetRoute(table, api_name,
             APIRoute(api_name, FRAMEWORK_ONLY,
                      FrameworkRoute(url_pattern, method, service_name), PyNone))

RegisterFrameworkDowngrading(table, api_name, url_pattern, method, service_name) ==
    LET framework_route == FrameworkRoute(url_pattern, method, service_name)
    IN  IF api_name \in DOMAIN table
        THEN SetRoute(table, api_name,
                      [table[api_name] EXCEPT !.framework_route = framework_route,
                                              !.support_mode = FRAMEWORK_ONLY])
        ELSE SetRoute(table, api_name,
                      APIRoute(api_name, FRAMEWORK_ONLY, framework_route, PyNone))

RegisterFramework(table, api_name, url_pattern, method, service_name) ==
    LET framework_route == FrameworkRoute(url_pattern, method, service_name)
    IN  IF api_name \in DOMAIN table
        THEN LET route == table[api_name]
             IN  SetRoute(table, api_name,
                          [route EXCEPT !.framework_route = framework_route,
                                        !.support_mode =
                                            IF @ = SDK_ONLY THEN BOTH ELSE @])
        ELSE SetRoute(table, api_name,
                      APIRoute(api_name, FRAMEWORK_ONLY, framework_route, PyNone))

\* APIRegistry.register_sdk: the _routes table after the call.
RegisterSdkReplacing(table, api_name, request_model, response_model, client_method) ==
    SetRoute(table, api_name,
             APIRoute(api_name, SDK_ONLY, PyNone,
                      SDKRoute(request_model, response_model, client_method)))

RegisterSdkKeepingMode(table, api_name, request_model, response_model, client_method) ==
    LET sdk_route == SDKRoute(request_model, response_model, client_method)
    IN  IF api_name \in DOMAIN table
        THEN SetRoute(table, api_name, [table[api_name] EXCEPT !.sdk_route = sdk_route])
        ELSE SetRoute(table, api_name,
                      APIRoute(api_name, SDK_ONLY, PyNone, sdk_route))

RegisterSdk(table, api_name, request_model, response_model, client_method) ==
    LET sdk_route == SDKRoute(request_model, response_model, client_method)
    IN  IF api_name \in DOMAIN table
        THEN LET route == table[api_name]
             IN  SetRoute(table, api_name,
                          [route EXCEPT !.sdk_route = sdk_route,
                                        !.support_mode =
                                            IF @ = FRAMEWORK_ONLY THEN BOTH ELSE @])
        ELSE SetRoute(table, api_name,
                      APIRoute(api_name, SDK_ONLY, PyNone, sdk_route))

\* APIRegistry.get_route
GetRoute(table, api_name) ==
    IF api_name \in DOMAIN table THEN table[api_name] ELSE PyNone

\* The names and bindings that callers register.
ApiNames == {"list_instances", "get_host_count"}
FrameworkBindings ==
    {[url_pattern |-> "/api/v1/am/instances", method |-> "get", service_name |-> "sysom_am"],
     [url_pattern |-> "/api/v2/am/instances", method |-> "POST", service_name |-> "sysom_am"]}
SdkBindings ==
    {[request_model |-> "ListInstancesRequest", response_model |-> "ListInstancesResponse",
      client_method |-> "list_instances_async"],
     [request_model |-> "GetHostCountRequest", response_model |-> "GetHostCountResponse",
      client_method |-> "get_host_count_async"]}

(* --------- mcp/lib/openapi_client.py: the two backends ------------------ *)
\* APIRegistry.get_framework_route
GetFrameworkRouteDefaulting(table, api_name) ==
    LET route == GetRoute(table, api_name)
    IN  IF ~IsNone(route) /\ ~IsNone(route.framework_route)
        THEN route.framework_route
        ELSE FrameworkRoute("/", "GET", "sysom_openapi")

GetFrameworkRoute(table, api_name) ==
    LET route == GetRoute(table, api_name)
    IN  IF ~IsNone(route) /\ ~IsNone(route.framework_route)
        THEN route.framework_route ELSE PyNone

\* type(request).__name__
TypeName(request) == IF request.t = "tea" THEN request.model ELSE request.t

\* What SysomFramework.gclient_get / gclient_post answer: (status, json, text).
FwResp(status, json_data, text) ==
    [kind |-> "fw_resp", status |-> status, json_data |-> json_data, text |-> text]

\* SysomFrameworkClient.call_api as a function of the registry, the request
\* and what the discovery call does (it raises or answers).
FrameworkCallApiRouteFirst(table, api_name, request, remote) ==
    LET framework_route == GetFrameworkRoute(table, api_name)
    IN  IF IsNone(framework_route)
        THEN Failure(<<"api ", api_name, " has no Framework route registered">>)
        ELSE IF ~IsNone(request) /\ ~IsDict(request)
        THEN Failure(<<"a Framework call needs a dict, got: ", TypeName(request)>>)
        ELSE IF remote.kind = "call_raise"
        THEN Failure(<<"API call failed, error: ", remote.kind>>)
        ELSE IF remote.status = 200
        THEN [success |-> TRUE, response_data |-> remote.json_data, error_msg |-> PyNone]
        ELSE Failure(<<"HTTP status: ", ToString(remote.status), ", response: ">>
                     \o remote.text)

FrameworkCallApi(table, api_name, request, remote) ==
    IF ~IsNone(request) /\ ~IsDict(request)
    THEN Failure(<<"a Framework call needs a dict, got: ", TypeName(request)>>)
    ELSE LET framework_route == GetFrameworkRoute(table, api_name)
         IN  IF IsNone(framework_route)
             THEN Failure(<<"api ", api_name, " has no Framework route registered">>)
             ELSE IF remote.kind = "call_raise"
             THEN Failure(<<"API call failed, error: ", remote.kind>>)
             ELSE IF remote.status = 200
             THEN [success |-> TRUE, response_data |-> remote.json_data,
                   error_msg |-> PyNone]
             ELSE Failure(<<"HTTP status: ", ToString(remote.status), ", response: ">>
                          \o remote.text)

\* mcp/lib/openapi_utils.py create_sysom_client: the credential modes it
\* builds a credential client for; any other case raises.
CredentialsResolve(mode, security_token) ==
    \/ mode = PyStr(<<"access_key">>)
    \/ mode = PyStr(<<"sts">>) /\ ~IsNone(security_token)

\* SysomFrameworkClient.__init__ and AlibabaCloudSDKClient.__init__; client
\* is self._client: 0 for None, else the number of the signed client.
FrameworkClient(uid, service_name) ==
    [t |-> "framework_client", uid |-> uid, service_name |-> service_name,
     registry |-> "mcp"]

SdkClient(mode, access_key_id, access_key_secret, security_token, region_id, registry) ==
    [t |-> "sdk_client", mode |-> mode, access_key_id |-> access_key_id,
     access_key_secret |-> access_key_secret, security_token |-> security_token,
     region_id |-> region_id, registry |-> registry, client |-> 0]

\* AlibabaCloudSDKClient._get_client: it raises, or returns the cached
\* signed client, constructing it (as number `fresh`) when there is none.
GetClientRebuilding(self, remote, fresh) ==
    IF ~CredentialsResolve(self.mode, self.security_token)
    THEN [raise |-> TRUE, client |-> self.client, why |-> "Invalid mode: {mode}"]
    ELSE [raise |-> FALSE, client |-> fresh, why |-> ""]

GetClient(self, remote, fresh) ==
    IF self.client # 0
    THEN [raise |-> FALSE, client |-> self.client, why |-> ""]
    ELSE IF ~CredentialsResolve(self.mode, self.security_token)
    THEN [raise |-> TRUE, client |-> 0, why |-> "Invalid mode: {mode}"]
    ELSE IF remote.kind = "ctor_raise"
    THEN [raise |-> TRUE, client |-> 0, why |-> remote.kind]
    ELSE [raise |-> FALSE, client |-> fresh, why |-> ""]

\* A 200 answer without a body: a call that fails although the remote side
\* would answer so was turned down before the remote call.
Answer200 == Resp(200, PyNone)

\* AlibabaCloudSDKClient.call_api on the instance `self`: what it returns,
\* self._client afterwards, and whether the client method was called.
SdkBackendCall(self, table, api_name, request, remote, fresh) ==
    IF ~SdkCallApi(table, api_name, request, Answer200).success
    THEN [tri |-> SdkCallApi(table, api_name, request, remote),
          client |-> self.client, called |-> FALSE]
    ELSE LET got == GetClient(self, remote, fresh)
         IN  IF got.raise
             THEN [tri |-> Failure(<<"API call failed, error: ", got.why>>),
                   client |-> got.client, called |-> FALSE]
             ELSE [tri |-> SdkCallApi(table, api_name, request, remote),
                   client |-> got.client, called |-> TRUE]

\* SysomFrameworkClient.call_api on an instance: what it returns and whether
\* the discovery call was made.
FrameworkBackendCall(table, api_name, request, remote) ==
    [tri |-> FrameworkCallApi(table, api_name, request, remote),
     client |-> 0,
     called |-> FrameworkCallApi(table, api_name, request,
                                 FwResp(200, PyNone, << >>)).success]

(* ------------------- ClientFactory.create_client ------------------------ *)
SYSOM_FRAMEWORK == PyStr(<<"sysom_framework">>)
ALIBABACLOUD_SDK == PyStr(<<"alibabacloud_sdk">>)
ACCESS_KEY == PyStr(<<"access_key">>)
STS == PyStr(<<"sts">>)
RAM_ROLE_ARN == PyStr(<<"ram_role_arn">>)
CN_HANGZHOU == PyStr(<<"cn-hangzhou">>)

\* kwargs.get(key)
KwGet(kwargs, key) == DictGet(kwargs, key, PyNone)

\* What create_client does: it returns a backend or raises.
Made(backend, exchanged) == [kind |-> "return", backend |-> backend, exchanged |-> exchanged]
NotMade(why, exchanged) == [kind |-> "raise", why |-> why, exchanged |-> exchanged]

\* mcp/lib ClientFactory.create_client.  SERVICE_CONFIG (a ServiceConfig)
\* has the attribute deploy_mode but none named type, ACCESS_KEY_ID,
\* ACCESS_KEY_SECRET or security_token, so those getattr calls yield their
\* defaults.  framework_ok: init_framework() does not raise.
McpCreateClientAsRequested(table, cfg, deploy_mode, uid, api_name, kwargs, framework_ok) ==
    LET chosen == IF IsNone(deploy_mode) THEN cfg.deploy_mode ELSE deploy_mode
    IN  IF chosen = ALIBABACLOUD_SDK
        THEN Made(SdkClient(DictGet(kwargs, "mode", ACCESS_KEY),
                            PyOr(KwGet(kwargs, "access_key_id"), PyNone),
                            PyOr(KwGet(kwargs, "access_key_secret"), PyNone),
                            PyOr(KwGet(kwargs, "security_token"), PyNone),
                            DictGet(kwargs, "region_id", CN_HANGZHOU), "mcp"), FALSE)
        ELSE IF IsNone(uid)
        THEN NotMade("ValueError", FALSE)
        ELSE IF ~framework_ok
        THEN NotMade("init_framework", FALSE)
        ELSE Made(FrameworkClient(uid, PyStr(<<"sysom_openapi">>)), FALSE)

McpCreateClient(table, cfg, deploy_mode, uid, api_name, kwargs, framework_ok) ==
    LET route == IF api_name # "" THEN GetRoute(table, api_name) ELSE PyNone
        forced == IF IsNone(route) THEN deploy_mode
                  ELSE IF route.support_mode = FRAMEWORK_ONLY THEN SYSOM_FRAMEWORK
                  ELSE IF route.support_mode = SDK_ONLY THEN ALIBABACLOUD_SDK
                  ELSE deploy_mode
        chosen == IF IsNone(forced) THEN cfg.deploy_mode ELSE forced
    IN  IF chosen = ALIBABACLOUD_SDK
        THEN Made(SdkClient(DictGet(kwargs, "mode", ACCESS_KEY),
                            PyOr(KwGet(kwargs, "access_key_id"), PyNone),
                            PyOr(KwGet(kwargs, "access_key_secret"), PyNone),
                            PyOr(KwGet(kwargs, "security_token"), PyNone),
                            DictGet(kwargs, "region_id", CN_HANGZHOU), "mcp"), FALSE)
        ELSE IF IsNone(uid)
        THEN NotMade("ValueError", FALSE)
        ELSE IF ~framework_ok
        THEN NotMade("init_framework", FALSE)
        ELSE Made(FrameworkClient(uid, PyStr(<<"sysom_openapi">>)), FALSE)

\* What CredentialClient(...).get_credential() does with a role descriptor:
\* it raises, or returns the temporary key id, secret and token.
ExchangeFailed == [kind |-> "raise"]
Exchanged ==
    [kind |-> "ok", access_key_id |-> PyStr(<<"STS.id">>),
     access_key_secret |-> PyStr(<<"sts-secret">>),
     security_token |-> PyStr(<<"sts-token">>)]
ExchangeOutcomes == {ExchangeFailed, Exchanged}

\* tools/lib ClientFactory.create_client; cfg.openapi is
\* SERVICE_CONFIG.openapi.  exchange: what the role assumption does.
ToolsCreateClientPassingRole(cfg, kwargs, exchange) ==
    Made(SdkClient(PyOr(KwGet(kwargs, "mode"), cfg.openapi.type),
                   PyOr(KwGet(kwargs, "access_key_id"), cfg.openapi.access_key_id),
                   PyOr(KwGet(kwargs, "access_key_secret"), cfg.openapi.access_key_secret),
                   PyOr(KwGet(kwargs, "security_token"), cfg.openapi.security_token),
                   DictGet(kwargs, "region_id", CN_HANGZHOU), "tools"), FALSE)

ToolsCreateClient(cfg, kwargs, exchange) ==
    LET mode == PyOr(KwGet(kwargs, "mode"), cfg.openapi.type)
        access_key_id == PyOr(KwGet(kwargs, "access_key_id"), cfg.openapi.access_key_id)
        access_key_secret ==
            PyOr(KwGet(kwargs, "access_key_secret"), cfg.openapi.access_key_secret)
        security_token == PyOr(KwGet(kwargs, "security_token"), cfg.openapi.security_token)
        region_id == DictGet(kwargs, "region_id", CN_HANGZHOU)
    IN  IF mode = RAM_ROLE_ARN
        THEN IF exchange.kind = "raise"
             THEN NotMade("get_credential", FALSE)
             ELSE Made(SdkClient(STS, exchange.access_key_id, exchange.access_key_secret,
                                 exchange.security_token, region_id, "tools"), TRUE)
        ELSE Made(SdkClient(mode, access_key_id, access_key_secret, security_token,
                            region_id, "tools"), FALSE)

\* The role descriptor create_client hands to the role assumption.
ToolsRoleDescriptor(cfg, kwargs) ==
    [access_key_id |-> PyOr(KwGet(kwargs, "access_key_id"), cfg.openapi.access_key_id),
     access_key_secret |->
         PyOr(KwGet(kwargs, "access_key_secret"), cfg.openapi.access_key_secret),
     role_arn |-> PyOr(KwGet(kwargs, "security_token"), cfg.openapi.role_arn),
     role_session_name |-> "SYSOM_MCP_SERVER",
     role_session_expiration |-> 3600]

(* ------------------------------- state ---------------------------------- *)
VARIABLES
    now,            \* asyncio.get_event_loop().time()
    tools_routes,   \* tools/lib APIRegistry()._routes (process-wide)
    pc,             \* where each invocation of execute stands
    timeout,        \* helper.timeout of each invocation
    poll_interval,  \* helper.poll_interval of each invocation
    sdk_client,     \* client._client of each invocation is built
    task_id,        \* execute's task_id
    start_time,     \* _wait_for_result's start_time
    wake,           \* when the pending asyncio.sleep is due
    response,       \* the DiagnosisMCPResponse execute returned
    \* what an observer of the invocation records
    submits,        \* invoke_diagnosis calls issued
    polls,          \* get_diagnosis_result calls issued
    sleeps,         \* asyncio.sleep calls made
    slept,          \* the durations they were made with
    polled,         \* the task ids the polls asked for
    submit_at,      \* when the submit call was issued
    entered_at,     \* when the submit call returned
    ended_at,       \* when execute returned or raised
    poll_at,        \* when the latest poll was issued
    submit_tri,     \* what call_api returned for the submit
    last_tri,       \* what call_api returned for the latest poll
    history,        \* what each poll led to, in order
    \* mcp/lib/api_registry.py
    routes,         \* APIRegistry()._routes (process-wide)
    reg_log,        \* the registrations made so far, in order
    \* coroutines that register routes on the one event loop
    caller_pc,      \* where each caller stands
    caller_job,     \* the registration each caller makes
    \* mcp/lib and tools/lib openapi_client.py
    config,         \* SERVICE_CONFIG, read from the environment at import
    backends,       \* the clients ClientFactory.create_client returned
    last_op,        \* the latest create_client or call_api and how it ended
    clients_built,  \* how many signed clients were constructed so far
    \* APIRegistry.__new__, run by threads
    new_pc,         \* where each thread stands in APIRegistry()
    new_lock,       \* the thread holding APIRegistry._lock (0: none)
    instance,       \* APIRegistry._instance: none, without _routes, or with
    obtained,       \* what APIRegistry() returned to each thread
    looked,         \* how each thread's get_route on what it obtained ended
    \* mcp/lib/openapi_utils.py init_framework, run by threads
    init_pc,        \* where each thread stands in init_framework()
    init_lock,      \* the thread holding _framework_init_lock (0: none)
    framework_initialized,  \* _framework_initialized
    framework_starts,       \* start sequences that completed
    init_calls,     \* init_framework calls made so far
    init_ended      \* how each thread's latest init_framework call ended

exec_vars == <<now, tools_routes, pc, timeout, poll_interval, sdk_client, task_id,
               start_time, wake, response, submits, polls, sleeps, slept, polled,
               submit_at, entered_at, ended_at, poll_at, submit_tri, last_tri, history>>

reg_vars == <<routes, reg_log>>

caller_vars == <<caller_pc, caller_job>>

client_vars == <<config, backends, last_op, clients_built>>

new_vars == <<new_pc, new_lock, instance, obtained, looked>>

init_vars == <<init_pc, init_lock, framework_initialized, framework_starts,
               init_calls, init_ended>>

boot_vars == <<new_vars, init_vars>>

vars == <<exec_vars, reg_vars, caller_vars, client_vars, boot_vars>>

Timeouts == (0 - 1)..MaxTimeout
Intervals == 0..MaxInterval

NoTri == [success |-> FALSE, response_data |-> PyNone, error_msg |-> PyNone]
NoResponse == [code |-> "", message |-> <<>>, task_id |-> <<>>, result |-> EmptyDict]

\* The callers that register concurrently.
Callers == {1, 2}

NoJob == [kind |-> "none", api_name |-> "", binding |-> PyNone]

\* No caller is registering.
CallersOff ==
    /\ caller_pc = [c \in Callers |-> "off"]
    /\ caller_job = [c \in Callers |-> NoJob]

\* The clients a process holds at a time.
Slots == {1, 2}

NoConfig == [t |-> "none"]
NoBackend == [t |-> "none"]
NoOp == [op |-> "none"]

\* No client is created.
ClientOff ==
    /\ config = NoConfig
    /\ backends = [b \in Slots |-> NoBackend]
    /\ last_op = NoOp
    /\ clients_built = 0

\* The threads that construct the registry and initialise the framework.
Threads == {1, 2, 3}

\* APIRegistry._instance is None.
NoInstance == [id |-> 0, routes |-> "unset"]

\* No thread has called APIRegistry() or init_framework().
BootOff ==
    /\ new_pc = [t \in Threads |-> "off"]
    /\ new_lock = 0
    /\ instance = NoInstance
    /\ obtained = [t \in Threads |-> 0]
    /\ looked = [t \in Threads |-> "no"]
    /\ init_pc = [t \in Threads |-> "off"]
    /\ init_lock = 0
    /\ framework_initialized = FALSE
    /\ framework_starts = 0
    /\ init_calls = 0
    /\ init_ended = [t \in Threads |-> "no"]

\* Invocation 1 is about to call execute; invocation 2 is not made.
Init ==
    /\ now = 0
    /\ tools_routes = [n \in {} |-> PyNone]
    /\ pc = [i \in Invs |-> IF i = 1 THEN "idle" ELSE "off"]
    /\ \E t \in Timeouts : timeout = [i \in Invs |-> IF i = 1 THEN t ELSE 0]
    /\ \E p \in Intervals : poll_interval = [i \in Invs |-> IF i = 1 THEN p ELSE 0]
    /\ sdk_client = [i \in Invs |-> FALSE]
    /\ task_id = [i \in Invs |-> PyNone]
    /\ start_time = [i \in Invs |-> 0]
    /\ wake = [i \in Invs |-> 0]
    /\ response = [i \in Invs |-> NoResponse]
    /\ submits = [i \in Invs |-> 0]
    /\ polls = [i \in Invs |-> 0]
    /\ sleeps = [i \in Invs |-> 0]
    /\ slept = [i \in Invs |-> {}]
    /\ polled = [i \in Invs |-> {}]
    /\ submit_at = [i \in Invs |-> 0]
    /\ entered_at = [i \in Invs |-> 0]
    /\ ended_at = [i \in Invs |-> 0]
    /\ poll_at = [i \in Invs |-> 0]
    /\ submit_tri = [i \in Invs |-> NoTri]
    /\ last_tri = [i \in Invs |-> NoTri]
    /\ history = [i \in Invs |-> << >>]
    /\ routes = [n \in {} |-> PyNone]
    /\ reg_log = << >>
    /\ CallersOff
    /\ ClientOff
    /\ BootOff

(* ------------------------------ actions --------------------------------- *)
\* execute returns `step.response` or raises.
Finish(i, step) ==
    IF step.kind = "return"
    THEN /\ pc' = [pc EXCEPT ![i] = "done"]
         /\ response' = [response EXCEPT ![i] = step.response]
         /\ ended_at' = [ended_at EXCEPT ![i] = now]
    ELSE /\ pc' = [pc EXCEPT ![i] = "raised"]
         /\ ended_at' = [ended_at EXCEPT ![i] = now]
         /\ UNCHANGED response

\* execute, lines 87-114: register the route if needed, issue the submit.
Execute(i) ==
    /\ pc[i] = "idle"
    /\ tools_routes' = EnsureRegistered(tools_routes, INVOKE_DIAGNOSIS,
                                        "InvokeDiagnosisRequest", "InvokeDiagnosisResponse")
    /\ pc' = [pc EXCEPT ![i] = "submitting"]
    /\ submits' = [submits EXCEPT ![i] = @ + 1]
    /\ submit_at' = [submit_at EXCEPT ![i] = now]
    /\ UNCHANGED <<now, timeout, poll_interval, sdk_client, task_id, start_time, wake,
                   response, polls, sleeps, slept, polled, poll_at, submit_tri,
                   last_tri, history, entered_at, ended_at>>
    /\ UNCHANGED <<reg_vars, caller_vars, client_vars, boot_vars>>

\* execute, lines 111-139, and _wait_for_result, lines 185-198: the submit
\* call returns; execute returns TaskCreateFailed, raises, or enters the
\* poll loop with the task id and the loop's start time.
SubmitReturnsWith(i, remote) ==
    /\ pc[i] = "submitting"
    /\    LET request == TeaRequest("InvokeDiagnosisRequest", PyNone)
              tri == SdkCallApi(tools_routes, INVOKE_DIAGNOSIS, request, remote)
              step == SubmitStep(tri)
          IN  /\ sdk_client' = [sdk_client EXCEPT ![i] =
                     SdkClientAfter(tools_routes, INVOKE_DIAGNOSIS, request, remote, @)]
              /\ submit_tri' = [submit_tri EXCEPT ![i] = tri]
              /\ entered_at' = [entered_at EXCEPT ![i] = now]
              /\ IF step.kind = "wait"
                 THEN /\ task_id' = [task_id EXCEPT ![i] = step.task_id]
                      /\ start_time' = [start_time EXCEPT ![i] = now]
                      /\ tools_routes' = EnsureRegistered(
                             tools_routes, GET_DIAGNOSIS_RESULT,
                             "GetDiagnosisResultRequest", "GetDiagnosisResultResponse")
                      /\ pc' = [pc EXCEPT ![i] = "loop"]
                      /\ UNCHANGED <<response, ended_at>>
                 ELSE /\ Finish(i, step)
                      /\ UNCHANGED <<task_id, start_time, tools_routes>>
    /\ UNCHANGED <<now, timeout, poll_interval, wake, submits, polls, sleeps, slept,
                   polled, submit_at, poll_at, last_tri, history>>
    /\ UNCHANGED <<reg_vars, caller_vars, client_vars, boot_vars>>

SubmitReturns(i) ==
    \E remote \in RemoteOutcomes(InvokeBodies, sdk_client[i]) : SubmitReturnsWith(i, remote)

\* _wait_for_result, lines 200-211 and 233: the loop condition; either the
\* next poll is issued or the loop ends with TaskTimeout.
LoopHead(i) ==
    /\ pc[i] = "loop"
    /\ IF WithinTimeout(now, start_time[i], timeout[i])
       THEN /\ polls[i] < MaxPolls
            /\ pc' = [pc EXCEPT ![i] = "polling"]
            /\ polls' = [polls EXCEPT ![i] = @ + 1]
            /\ polled' = [polled EXCEPT ![i] = @ \cup {task_id[i]}]
            /\ poll_at' = [poll_at EXCEPT ![i] = now]
            /\ UNCHANGED <<response, ended_at>>
       ELSE /\ Finish(i, FinishStep(task_id[i], TASK_TIMEOUT,
                                    TimeoutMessage(timeout[i], task_id[i]), PyNone))
            /\ UNCHANGED <<polls, polled, poll_at>>
    /\ UNCHANGED <<now, tools_routes, timeout, poll_interval, sdk_client, task_id,
                   start_time, wake, submits, sleeps, slept, submit_at, entered_at,
                   submit_tri, last_tri, history>>
    /\ UNCHANGED <<reg_vars, caller_vars, client_vars, boot_vars>>

\* What a poll observed, for the record: the call failed, the answer had no
\* body, its code was not Success, or else the task's status ("pending" for
\* every status that is neither Fail nor Success, an absent one included).
Observed(tri) ==
    IF ~tri.success THEN "call_failed"
    ELSE IF ~IsDict(tri.response_data) THEN "no_body"
    ELSE IF DictGet(tri.response_data, "code", PyNone) # PyStr(<<"Success">>) THEN "bad_code"
    ELSE LET data == DictGet(tri.response_data, "data", PyDict(EmptyDict))
             status == DictGet(data, "status", PyNone)
         IN  IF status = PyStr(<<"Fail">>) THEN "Fail"
             ELSE IF status = PyStr(<<"Success">>) THEN "Success"
             ELSE "pending"

\* _wait_for_result, lines 208-231, and execute, lines 139-173: the poll
\* call returns; the loop sleeps, or execute returns or raises.
PollReturnsWith(i, remote) ==
    /\ pc[i] = "polling"
    /\    LET request == TeaRequest("GetDiagnosisResultRequest", task_id[i])
              tri == SdkCallApi(tools_routes, GET_DIAGNOSIS_RESULT, request, remote)
              step == PollStep(tri)
          IN  /\ sdk_client' = [sdk_client EXCEPT ![i] =
                     SdkClientAfter(tools_routes, GET_DIAGNOSIS_RESULT, request, remote, @)]
              /\ last_tri' = [last_tri EXCEPT ![i] = tri]
              /\ history' = [history EXCEPT ![i] = Append(@, Observed(tri))]
              /\ IF step.kind = "sleep"
                 THEN /\ pc' = [pc EXCEPT ![i] = "sleeping"]
                      /\ sleeps' = [sleeps EXCEPT ![i] = @ + 1]
                      /\ slept' = [slept EXCEPT ![i] = @ \cup {poll_interval[i]}]
                      /\ wake' = [wake EXCEPT ![i] = now + poll_interval[i]]
                      /\ UNCHANGED <<response, ended_at>>
                 ELSE /\ IF step.kind = "return"
                         THEN Finish(i, FinishStep(task_id[i], step.code, step.message,
                                                   step.result))
                         ELSE Finish(i, step)
                      /\ UNCHANGED <<sleeps, slept, wake>>
    /\ UNCHANGED <<now, tools_routes, timeout, poll_interval, task_id, start_time,
                   submits, polls, polled, submit_at, entered_at, poll_at, submit_tri>>
    /\ UNCHANGED <<reg_vars, caller_vars, client_vars, boot_vars>>

PollReturns(i) ==
    \E remote \in RemoteOutcomes(ResultBodies, sdk_client[i]) : PollReturnsWith(i, remote)

\* _wait_for_result, line 229: asyncio.sleep(poll_interval) is over.
SleepReturns(i) ==
    /\ pc[i] = "sleeping"
    /\ now >= wake[i]
    /\ pc' = [pc EXCEPT ![i] = "loop"]
    /\ UNCHANGED <<now, tools_routes, timeout, poll_interval, sdk_client, task_id,
                   start_time, wake, response, submits, polls, sleeps, slept, polled,
                   submit_at, entered_at, ended_at, poll_at, submit_tri, last_tri,
                   history>>
    /\ UNCHANGED <<reg_vars, caller_vars, client_vars, boot_vars>>

\* An invocation of execute is under way.
Running(i) == pc[i] \in {"idle", "submitting", "loop", "polling", "sleeping"}

\* Time passes on the event loop's clock (followed while an invocation is
\* under way, up to MaxClock).
Tick ==
    /\ now < MaxClock
    /\ \E i \in Invs : Running(i)
    /\ now' = now + 1
    /\ UNCHANGED <<tools_routes, pc, timeout, poll_interval, sdk_client, task_id,
                   start_time, wake, response, submits, polls, sleeps, slept, polled,
                   submit_at, entered_at, ended_at, poll_at, submit_tri, last_tri,
                   history>>
    /\ UNCHANGED <<reg_vars, caller_vars, client_vars, boot_vars>>

(* ----------------------- registry actions ------------------------------ *)
\* A caller registers a discovery binding.
register_framework(api_name, b) ==
    /\ Len(reg_log) < MaxRegs
    /\ routes' = RegisterFramework(routes, api_name, b.url_pattern, b.method, b.service_name)
    /\ reg_log' = Append(reg_log, [kind |-> "framework", api_name |-> api_name, binding |-> b])
    /\ UNCHANGED <<exec_vars, caller_vars, client_vars, boot_vars>>

\* A caller registers a direct-API binding.
register_sdk(api_name, b) ==
    /\ Len(reg_log) < MaxRegs
    /\ routes' = RegisterSdk(routes, api_name, b.request_model, b.response_model,
                             b.client_method)
    /\ reg_log' = Append(reg_log, [kind |-> "sdk", api_name |-> api_name, binding |-> b])
    /\ UNCHANGED <<exec_vars, caller_vars, client_vars, boot_vars>>

\* A caller registers a direct-API binding in the registry of tools/lib.
tools_register_sdk(api_name, b) ==
    /\ Len(reg_log) < MaxRegs
    /\ tools_routes' = ToolsRegisterSdk(tools_routes, api_name, b.request_model,
                                        b.response_model, b.client_method)
    /\ reg_log' = Append(reg_log, [kind |-> "tools_sdk", api_name |-> api_name,
                                   binding |-> b])
    /\ UNCHANGED <<now, pc, timeout, poll_interval, sdk_client, task_id, start_time,
                   wake, response, submits, polls, sleeps, slept, polled, submit_at,
                   entered_at, ended_at, poll_at, submit_tri, last_tri, history>>
    /\ UNCHANGED <<routes, caller_vars, client_vars, boot_vars>>

\* No invocation of execute is made.
ExecOff ==
    /\ now = 0
    /\ pc = [i \in Invs |-> "off"]
    /\ timeout = [i \in Invs |-> 0]
    /\ poll_interval = [i \in Invs |-> 0]
    /\ sdk_client = [i \in Invs |-> FALSE]
    /\ task_id = [i \in Invs |-> PyNone]
    /\ start_time = [i \in Invs |-> 0]
    /\ wake = [i \in Invs |-> 0]
    /\ response = [i \in Invs |-> NoResponse]
    /\ submits = [i \in Invs |-> 0]
    /\ polls = [i \in Invs |-> 0]
    /\ sleeps = [i \in Invs |-> 0]
    /\ slept = [i \in Invs |-> {}]
    /\ polled = [i \in Invs |-> {}]
    /\ submit_at = [i \in Invs |-> 0]
    /\ entered_at = [i \in Invs |-> 0]
    /\ ended_at = [i \in Invs |-> 0]
    /\ poll_at = [i \in Invs |-> 0]
    /\ submit_tri = [i \in Invs |-> NoTri]
    /\ last_tri = [i \in Invs |-> NoTri]
    /\ history = [i \in Invs |-> << >>]

\* Nothing is registered yet in the registry of mcp/lib.
RegistryEmpty ==
    /\ routes = [n \in {} |-> PyNone]
    /\ reg_log = << >>

\* Nothing is registered yet in the registry of tools/lib.
ToolsRegistryEmpty == tools_routes = [n \in {} |-> PyNone]

RegistryInit ==
    ExecOff /\ ToolsRegistryEmpty /\ RegistryEmpty /\ CallersOff /\ ClientOff /\ BootOff

RegistryNext ==
    \/ \E n \in ApiNames, b \in FrameworkBindings : register_framework(n, b)
    \/ \E n \in ApiNames, b \in SdkBindings : register_sdk(n, b)
    \/ \E n \in ApiNames, b \in SdkBindings : tools_register_sdk(n, b)

RegistrySpec == RegistryInit /\ [][RegistryNext]_vars

(* ------------------- clients: factory and call_api --------------------- *)
\* At most MaxBuilt signed clients are constructed.
MaxBuilt == 3

\* The operation names callers use: the first is registered with both
\* bindings, the second with a direct-API binding only, the third with a
\* discovery binding only, the fourth is not registered.
ClientNames == {"list_instances", "get_host_count", "list_clusters", "list_pods"}

ClientRegistrations ==
    <<[kind |-> "framework", api_name |-> "list_instances",
       binding |-> [url_pattern |-> "/api/v1/am/instances", method |-> "get",
                    service_name |-> "sysom_am"]],
      [kind |-> "sdk", api_name |-> "list_instances",
       binding |-> [request_model |-> "ListInstancesRequest",
                    response_model |-> "ListInstancesResponse",
                    client_method |-> "list_instances_async"]],
      [kind |-> "sdk", api_name |-> "get_host_count",
       binding |-> [request_model |-> "GetHostCountRequest",
                    response_model |-> "GetHostCountResponse",
                    client_method |-> "get_host_count_async"]],
      [kind |-> "framework", api_name |-> "list_clusters",
       binding |-> [url_pattern |-> "/api/v1/am/clusters", method |-> "POST",
                    service_name |-> "sysom_am"]]>>

\* The registry after the first k of these registrations.
RECURSIVE RegisteredTable(_)
RegisteredTable(k) ==
    IF k = 0 THEN [n \in {} |-> PyNone]
    ELSE LET e == ClientRegistrations[k]
             b == e.binding
         IN  IF e.kind = "framework"
             THEN RegisterFramework(RegisteredTable(k - 1), e.api_name, b.url_pattern,
                                    b.method, b.service_name)
             ELSE RegisterSdk(RegisteredTable(k - 1), e.api_name, b.request_model,
                              b.response_model, b.client_method)

\* The registry of tools/lib after the direct-API ones among them.
RECURSIVE ToolsRegisteredTable(_)
ToolsRegisteredTable(k) ==
    IF k = 0 THEN [n \in {} |-> PyNone]
    ELSE LET e == ClientRegistrations[k]
             b == e.binding
         IN  IF e.kind = "sdk"
             THEN ToolsRegisterSdk(ToolsRegisteredTable(k - 1), e.api_name,
                                   b.request_model, b.response_model, b.client_method)
             ELSE ToolsRegisteredTable(k - 1)

\* SERVICE_CONFIG as the environment sets it: the deployment mode and the
\* direct-API credentials (static keys, or a role to assume).
Configs ==
    {[deploy_mode |-> ALIBABACLOUD_SDK,
      openapi |-> [type |-> ACCESS_KEY, access_key_id |-> PyStr(<<"AK.id">>),
                   access_key_secret |-> PyStr(<<"ak-secret">>),
                   security_token |-> PyNone, role_arn |-> PyNone]],
     [deploy_mode |-> SYSOM_FRAMEWORK,
      openapi |-> [type |-> RAM_ROLE_ARN, access_key_id |-> PyStr(<<"AK.id">>),
                   access_key_secret |-> PyStr(<<"ak-secret">>),
                   security_token |-> PyNone,
                   role_arn |-> PyStr(<<"acs:ram::1:role/diag">>)]]}

\* The arguments callers give create_client.
DeployModeArgs == {PyNone, SYSOM_FRAMEWORK, ALIBABACLOUD_SDK}
UidArgs == {PyNone, PyStr(<<"u1">>)}
KwArgs ==
    {PyDict(EmptyDict),
     PyDict([mode |-> STS]),
     PyDict([mode |-> STS, security_token |-> PyStr(<<"token">>)]),
     PyDict([security_token |-> PyStr(<<"token">>)]),
     PyDict([mode |-> PyStr(<<"oauth">>)]),
     PyDict([mode |-> RAM_ROLE_ARN])}

\* The registry a client looks routes up in.
RegistryOf(self) == IF self.registry = "mcp" THEN routes ELSE tools_routes

\* The credential arguments of the callers that go on to call_api: none,
\* STS without a token, a mode that does not exist.
ClientKwArgs ==
    {PyDict(EmptyDict), PyDict([mode |-> STS]), PyDict([mode |-> PyStr(<<"oauth">>)])}

\* The requests callers give call_api.
ClientRequests ==
    {PyNone, PyDict([region |-> PyStr(<<"cn-hangzhou">>)]),
     TeaRequest("ListInstancesRequest", PyNone),
     TeaRequest("ListInstancesRequestEx", PyNone),
     TeaRequest("GetHostCountRequest", PyNone)}

\* What the remote side answers a direct-API call with, and what the
\* discovery call does.
ClientBodies == {PyDict([code |-> PyStr(<<"Success">>)])}
FrameworkOutcomes ==
    {CallRaise,
     FwResp(200, PyDict([code |-> PyStr(<<"Success">>)]), <<"ok">>),
     FwResp(500, PyNone, <<"oops">>),
     FwResp(404, PyNone, << >>)}
NoRemote == [kind |-> "none"]

\* What can happen to a call_api of the client in slot b once it is past
\* its checks; a call that is turned down meets no remote side.
SdkOutcomes(b, api_name, request) ==
    LET self == backends[b]
    IN  IF /\ self.t = "sdk_client"
           /\ SdkCallApi(RegistryOf(self), api_name, request, Answer200).success
           /\ (self.client # 0 \/ CredentialsResolve(self.mode, self.security_token))
        THEN RemoteOutcomes(ClientBodies, self.client # 0)
        ELSE {NoRemote}

DiscoveryOutcomes(b, api_name, request) ==
    LET self == backends[b]
    IN  IF /\ self.t = "framework_client"
           /\ FrameworkCallApi(RegistryOf(self), api_name, request,
                               FwResp(200, PyNone, << >>)).success
        THEN FrameworkOutcomes
        ELSE {NoRemote}

\* The process has imported its configuration and registered its routes;
\* no client exists yet.
ClientInit ==
    /\ ExecOff /\ CallersOff /\ BootOff
    /\ routes = RegisteredTable(Len(ClientRegistrations))
    /\ tools_routes = ToolsRegisteredTable(Len(ClientRegistrations))
    /\ reg_log = ClientRegistrations
    /\ config \in Configs
    /\ backends = [b \in Slots |-> NoBackend]
    /\ last_op = NoOp
    /\ clients_built = 0

\* The slot the next client goes to.
FreeSlot(b) ==
    /\ backends[b] = NoBackend
    /\ \A a \in Slots : a < b => backends[a] # NoBackend

\* A caller asks the factory of mcp/lib for a client.
create_client(deploy_mode, uid, api_name, kwargs, framework_ok) ==
    /\ \E b \in Slots :
          /\ FreeSlot(b)
          /\ LET made == McpCreateClient(routes, config, deploy_mode, uid, api_name,
                                          kwargs, framework_ok)
             IN  /\ backends' = IF made.kind = "return"
                                 THEN [backends EXCEPT ![b] = made.backend]
                                 ELSE backends
                 /\ last_op' = [op |-> "create", factory |-> "mcp", slot |-> b,
                                deploy_mode |-> deploy_mode, uid |-> uid,
                                api_name |-> api_name, kwargs |-> kwargs, made |-> made]
    /\ UNCHANGED <<config, clients_built, exec_vars, reg_vars, caller_vars, boot_vars>>

\* A caller asks the factory of tools/lib for a client.
tools_create_client(kwargs, exchange) ==
    /\ \E b \in Slots :
          /\ FreeSlot(b)
          /\ LET made == ToolsCreateClient(config, kwargs, exchange)
             IN  /\ backends' = IF made.kind = "return"
                                 THEN [backends EXCEPT ![b] = made.backend]
                                 ELSE backends
                 /\ last_op' = [op |-> "create", factory |-> "tools", slot |-> b,
                                kwargs |-> kwargs, exchange |-> exchange,
                                descriptor |-> ToolsRoleDescriptor(config, kwargs),
                                made |-> made]
    /\ UNCHANGED <<config, clients_built, exec_vars, reg_vars, caller_vars, boot_vars>>

\* A caller awaits call_api of the direct-API client in slot b.
sdk_call_api(b, api_name, request, remote) ==
    /\ backends[b].t = "sdk_client"
    /\ clients_built < MaxBuilt
    /\ LET self == backends[b]
           out == SdkBackendCall(self, RegistryOf(self), api_name, request, remote,
                                 clients_built + 1)
       IN  /\ backends' = [backends EXCEPT ![b].client = out.client]
           /\ clients_built' = IF out.client # self.client
                                THEN clients_built + 1 ELSE clients_built
           /\ last_op' = [op |-> "call", slot |-> b, built_before |-> self.client # 0,
                          api_name |-> api_name, request |-> request,
                          remote |-> remote, tri |-> out.tri, called |-> out.called]
    /\ UNCHANGED <<config, exec_vars, reg_vars, caller_vars, boot_vars>>

\* A caller awaits call_api of the discovery client in slot b.
framework_call_api(b, api_name, request, remote) ==
    /\ backends[b].t = "framework_client"
    /\ LET self == backends[b]
           out == FrameworkBackendCall(RegistryOf(self), api_name, request, remote)
       IN  /\ last_op' = [op |-> "call", slot |-> b, built_before |-> FALSE,
                          api_name |-> api_name, request |-> request,
                          remote |-> remote, tri |-> out.tri, called |-> out.called]
    /\ UNCHANGED <<config, backends, clients_built, exec_vars, reg_vars, caller_vars,
                   boot_vars>>

\* Callers ask the factories for clients.
FactoryNext ==
    \/ \E d \in DeployModeArgs, u \in UidArgs, n \in ClientNames \cup {""},
          k \in KwArgs, ok \in BOOLEAN : create_client(d, u, n, k, ok)
    \/ \E k \in KwArgs, x \in ExchangeOutcomes : tools_create_client(k, x)

FactorySpec == ClientInit /\ [][FactoryNext]_vars

\* Callers ask the factories for clients and call them.
ClientNext ==
    \/ \E d \in DeployModeArgs, u \in UidArgs, n \in ClientNames \cup {""},
          k \in ClientKwArgs, ok \in BOOLEAN : create_client(d, u, n, k, ok)
    \/ \E k \in ClientKwArgs, x \in ExchangeOutcomes : tools_create_client(k, x)
    \/ \E b \in Slots, n \in ClientNames, r \in ClientRequests :
          \E remote \in SdkOutcomes(b, n, r) : sdk_call_api(b, n, r, remote)
    \/ \E b \in Slots, n \in ClientNames, r \in ClientRequests :
          \E remote \in DiscoveryOutcomes(b, n, r) : framework_call_api(b, n, r, remote)

ClientSpec == ClientInit /\ [][ClientNext]_vars

(* ------------------------ concurrent callers --------------------------- *)
\* The registrations a caller can make for `name`: a discovery binding or a
\* direct-API binding in the registry of mcp/lib, or, as execute does, a
\* direct-API binding in the registry of tools/lib unless a route exists.
Jobs(name) ==
    {[kind |-> "framework", api_name |-> name, binding |-> b] : b \in FrameworkBindings}
    \cup {[kind |-> k, api_name |-> name, binding |-> b] :
              k \in {"sdk", "tools_sdk"}, b \in SdkBindings}

\* Two coroutines are about to register the same operation name.
CallersInit ==
    /\ ExecOff /\ ToolsRegistryEmpty /\ RegistryEmpty /\ ClientOff /\ BootOff
    /\ caller_pc = [c \in Callers |-> "ready"]
    /\ \E n \in ApiNames : caller_job \in [Callers -> Jobs(n)]

\* The event loop runs caller c up to its next await: the registration is
\* made of synchronous statements only, so no other caller runs in between.
CallerRegisters(c) ==
    /\ caller_pc[c] = "ready"
    /\ LET job == caller_job[c]
           b == job.binding
       IN  /\ routes' =
                IF job.kind = "framework"
                THEN RegisterFramework(routes, job.api_name, b.url_pattern, b.method,
                                       b.service_name)
                ELSE IF job.kind = "sdk"
                THEN RegisterSdk(routes, job.api_name, b.request_model,
                                 b.response_model, b.client_method)
                ELSE routes
           /\ tools_routes' =
                IF job.kind = "tools_sdk"
                THEN IF IsNone(ToolsGetRoute(tools_routes, job.api_name))
                     THEN ToolsRegisterSdk(tools_routes, job.api_name, b.request_model,
                                           b.response_model, b.client_method)
                     ELSE tools_routes
                ELSE tools_routes
           /\ reg_log' = Append(reg_log, job)
    /\ caller_pc' = [caller_pc EXCEPT ![c] = "suspended"]
    /\ UNCHANGED <<now, pc, timeout, poll_interval, sdk_client, task_id, start_time,
                   wake, response, submits, polls, sleeps, slept, polled, submit_at,
                   entered_at, ended_at, poll_at, submit_tri, last_tri, history>>
    /\ UNCHANGED <<caller_job, client_vars, boot_vars>>

\* The call caller c awaited (the remote call that follows the
\* registration) completes and the caller goes on.
CallerResumes(c) ==
    /\ caller_pc[c] = "suspended"
    /\ caller_pc' = [caller_pc EXCEPT ![c] = "done"]
    /\ UNCHANGED <<exec_vars, reg_vars, caller_job, client_vars, boot_vars>>

CallersNext ==
    \/ \E c \in Callers : CallerRegisters(c)
    \/ \E c \in Callers : CallerResumes(c)

CallersSpec == CallersInit /\ [][CallersNext]_vars

(* --------------- APIRegistry.__new__, run by threads -------------------- *)
\* The interpreter switches threads between bytecodes, so another thread can
\* run between any two statements of __new__; a thread that waits for
\* _lock runs again when the lock is free.
SingletonInit ==
    /\ ExecOff /\ ToolsRegistryEmpty /\ RegistryEmpty /\ CallersOff /\ ClientOff
    /\ new_pc = [t \in Threads |-> "line 91"]
    /\ new_lock = 0
    /\ instance = NoInstance
    /\ obtained = [t \in Threads |-> 0]
    /\ looked = [t \in Threads |-> "no"]
    /\ init_pc = [t \in Threads |-> "off"]
    /\ init_lock = 0
    /\ framework_initialized = FALSE
    /\ framework_starts = 0
    /\ init_calls = 0
    /\ init_ended = [t \in Threads |-> "no"]

\* Thread t runs the next statement of APIRegistry.__new__ (mcp/lib lines
\* 90-96, tools/lib lines 56-62); the pc names the line of mcp/lib.
registry_new(t) ==
    /\ \/ /\ new_pc[t] = "line 91"          \* if cls._instance is None:
          /\ new_pc' = [new_pc EXCEPT ![t] = IF instance.id = 0 THEN "line 92"
                                             ELSE "line 96"]
          /\ UNCHANGED <<new_lock, instance, obtained>>
       \/ /\ new_pc[t] = "line 92"          \* with cls._lock:
          /\ new_lock = 0
          /\ new_lock' = t
          /\ new_pc' = [new_pc EXCEPT ![t] = "line 93"]
          /\ UNCHANGED <<instance, obtained>>
       \/ /\ new_pc[t] = "line 93"          \* if cls._instance is None:
          /\ new_pc' = [new_pc EXCEPT ![t] = IF instance.id = 0 THEN "line 94"
                                             ELSE "unlock"]
          /\ UNCHANGED <<new_lock, instance, obtained>>
       \/ /\ new_pc[t] = "line 94"          \* cls._instance = super().__new__(cls)
          /\ instance' = [id |-> 1, routes |-> "unset"]
          /\ new_pc' = [new_pc EXCEPT ![t] = "line 95"]
          /\ UNCHANGED <<new_lock, obtained>>
       \/ /\ new_pc[t] = "line 95"          \* cls._instance._routes = {}
          /\ instance' = [instance EXCEPT !.routes = "empty"]
          /\ new_pc' = [new_pc EXCEPT ![t] = "unlock"]
          /\ UNCHANGED <<new_lock, obtained>>
       \/ /\ new_pc[t] = "unlock"           \* the with block is left
          /\ new_lock' = 0
          /\ new_pc' = [new_pc EXCEPT ![t] = "line 96"]
          /\ UNCHANGED <<instance, obtained>>
       \/ /\ new_pc[t] = "line 96"          \* return cls._instance
          /\ obtained' = [obtained EXCEPT ![t] = instance.id]
          /\ new_pc' = [new_pc EXCEPT ![t] = "returned"]
          /\ UNCHANGED <<new_lock, instance>>
    /\ UNCHANGED <<looked, init_vars, exec_vars, reg_vars, caller_vars, client_vars>>

\* Thread t calls get_route on the registry it obtained: self._routes.get
\* raises AttributeError while the instance has no _routes.
registry_get_route(t) ==
    /\ new_pc[t] = "returned"
    /\ looked' = [looked EXCEPT ![t] = IF instance.routes = "unset"
                                       THEN "AttributeError" ELSE "no route"]
    /\ new_pc' = [new_pc EXCEPT ![t] = "looked"]
    /\ UNCHANGED <<new_lock, instance, obtained, init_vars, exec_vars, reg_vars,
                   caller_vars, client_vars>>

SingletonNext ==
    \/ \E t \in Threads : registry_new(t)
    \/ \E t \in Threads : registry_get_route(t)

SingletonSpec == SingletonInit /\ [][SingletonNext]_vars

(* ------------- mcp/lib/openapi_utils.py: init_framework ----------------- *)
\* At most MaxInitCalls calls of init_framework are made.
MaxInitCalls == 4

\* What SysomFramework.init(None).load_plugin_cls(CmgPlugin).start() does.
StartOutcomes == {"ok", "raise"}

\* `if _framework_initialized: return` inside the lock (lines 28-29).
LockedCheckOmitted(initialized) == FALSE

LockedCheck(initialized) == initialized

FrameworkInit ==
    /\ ExecOff /\ ToolsRegistryEmpty /\ RegistryEmpty /\ CallersOff /\ ClientOff
    /\ new_pc = [t \in Threads |-> "off"]
    /\ new_lock = 0
    /\ instance = NoInstance
    /\ obtained = [t \in Threads |-> 0]
    /\ looked = [t \in Threads |-> "no"]
    /\ init_pc = [t \in Threads |-> "idle"]
    /\ init_lock = 0
    /\ framework_initialized = FALSE
    /\ framework_starts = 0
    /\ init_calls = 0
    /\ init_ended = [t \in Threads |-> "no"]

\* Thread t runs the next statement of init_framework, which it calls from
\* SysomFrameworkClient.__init__; `outcome` is what the start sequence does
\* when the statement is the start. Leaving the with block, by return or by
\* the raise, releases the lock.
init_framework(t, outcome) ==
    /\ \/ /\ init_pc[t] = "idle"            \* init_framework()
          /\ init_calls < MaxInitCalls
          /\ init_calls' = init_calls + 1
          /\ init_pc' = [init_pc EXCEPT ![t] = "line 23"]
          /\ init_ended' = [init_ended EXCEPT ![t] = "no"]
          /\ UNCHANGED <<init_lock, framework_initialized, framework_starts>>
       \/ /\ init_pc[t] = "line 23"         \* if _framework_initialized: return
          /\ IF framework_initialized
             THEN /\ init_pc' = [init_pc EXCEPT ![t] = "idle"]
                  /\ init_ended' = [init_ended EXCEPT ![t] = "skipped"]
             ELSE /\ init_pc' = [init_pc EXCEPT ![t] = "line 27"]
                  /\ UNCHANGED init_ended
          /\ UNCHANGED <<init_lock, framework_initialized, framework_starts, init_calls>>
       \/ /\ init_pc[t] = "line 27"         \* with _framework_init_lock:
          /\ init_lock = 0
          /\ init_lock' = t
          /\ init_pc' = [init_pc EXCEPT ![t] = "line 28"]
          /\ UNCHANGED <<framework_initialized, framework_starts, init_calls, init_ended>>
       \/ /\ init_pc[t] = "line 28"         \* if _framework_initialized: return
          /\ IF LockedCheck(framework_initialized)
             THEN /\ init_pc' = [init_pc EXCEPT ![t] = "idle"]
                  /\ init_ended' = [init_ended EXCEPT ![t] = "skipped"]
                  /\ init_lock' = 0
             ELSE /\ init_pc' = [init_pc EXCEPT ![t] = "line 36"]
                  /\ UNCHANGED <<init_ended, init_lock>>
          /\ UNCHANGED <<framework_initialized, framework_starts, init_calls>>
       \/ /\ init_pc[t] = "line 36"         \* SysomFramework.init(None)...start()
          /\ IF outcome = "raise"
             THEN /\ init_pc' = [init_pc EXCEPT ![t] = "idle"]
                  /\ init_ended' = [init_ended EXCEPT ![t] = "raised"]
                  /\ init_lock' = 0
                  /\ UNCHANGED framework_starts
             ELSE /\ init_pc' = [init_pc EXCEPT ![t] = "line 45"]
                  /\ framework_starts' = framework_starts + 1
                  /\ UNCHANGED <<init_ended, init_lock>>
          /\ UNCHANGED <<framework_initialized, init_calls>>
       \/ /\ init_pc[t] = "line 45"         \* _framework_initialized = True
          /\ framework_initialized' = TRUE
          /\ init_pc' = [init_pc EXCEPT ![t] = "idle"]
          /\ init_ended' = [init_ended EXCEPT ![t] = "returned"]
          /\ init_lock' = 0
          /\ UNCHANGED <<framework_starts, init_calls>>
    /\ UNCHANGED <<new_vars, exec_vars, reg_vars, caller_vars, client_vars>>

FrameworkNext == \E t \in Threads, outcome \in StartOutcomes : init_framework(t, outcome)

FrameworkSpec == FrameworkInit /\ [][FrameworkNext]_vars

Next ==
    \/ Tick
    \/ \E i \in Invs : Execute(i)
    \/ \E i \in Invs : SubmitReturns(i)
    \/ \E i \in Invs : LoopHead(i)
    \/ \E i \in Invs : PollReturns(i)
    \/ \E i \in Invs : SleepReturns(i)

Spec == Init /\ [][Next]_vars

(* ------------------- tools/*_diag_mcp.py: the adapters ------------------ *)
\* What a diagnostic tool (memgraph, javamem, oomcheck, vmcore,
\* diskanalysis) returns for its call of helper.execute: `return await
\* helper.execute(mcp_request)` inside `try`, and in `except Exception` a
\* TaskCreateFailed response with the exception's text and task_id "".
\* `ended` is how execute ended, "done" (returned) or "raised".
AdapterReturns(ended, returned) ==
    IF ended = "done"
    THEN returned
    ELSE [code |-> TASK_CREATE_FAILED, message |-> <<"diagnosis failed: ", "exception">>,
          task_id |-> << >>, result |-> EmptyDict]

(* --------------------- execute under fair scheduling -------------------- *)
\* Invocation i is in the poll loop and the time still matters to it: it
\* is inside its timeout, or it sleeps and its sleep is not over.
AwaitsClock(i) ==
    \/ /\ pc[i] \in {"loop", "polling", "sleeping"}
       /\ WithinTimeout(now, start_time[i], timeout[i])
    \/ pc[i] = "sleeping" /\ now < wake[i]

\* The clock advances. Time that passes while no invocation awaits the clock
\* changes no condition of the loop, so the clock is followed only while
\* one does, which bounds it by the timeout and the poll interval.
ClockAdvances ==
    /\ \E i \in Invs : AwaitsClock(i)
    /\ now' = now + 1
    /\ UNCHANGED <<tools_routes, pc, timeout, poll_interval, sdk_client, task_id,
                   start_time, wake, response, submits, polls, sleeps, slept, polled,
                   submit_at, entered_at, ended_at, poll_at, submit_tri, last_tri,
                   history>>
    /\ UNCHANGED <<reg_vars, caller_vars, client_vars, boot_vars>>

LiveNext ==
    \/ ClockAdvances
    \/ \E i \in Invs : Execute(i)
    \/ \E i \in Invs : SubmitReturns(i)
    \/ \E i \in Invs : LoopHead(i)
    \/ \E i \in Invs : PollReturns(i)
    \/ \E i \in Invs : SleepReturns(i)

\* Every remote call returns, every sleep ends, the event loop resumes a
\* coroutine whose await is over, and the clock advances.
LiveSpec ==
    /\ Init
    /\ [][LiveNext]_vars
    /\ WF_vars(ClockAdvances)
    /\ \A i \in Invs :
          /\ WF_vars(Execute(i))
          /\ WF_vars(SubmitReturns(i))
          /\ WF_vars(LoopHead(i))
          /\ WF_vars(PollReturns(i))
          /\ WF_vars(SleepReturns(i))

(* ---------------------- concurrent invocations -------------------------- *)
\* Two tool calls run on the one event loop, each with a client and a
\* helper of its own (mem_diag_mcp.py, lines 90-96); they interleave at their
\* awaits.  The remote side creates a task or the call raises; a poll is
\* answered with a running, failed or finished task, or raises.
\* The first helper has the shorter timeout.
ConcurrentTimeouts == {[i \in Invs |-> i]}

\* The platform gives every task it creates an id of its own.
ConcurrentTaskId(i) == IF i = 1 THEN <<"T1">> ELSE <<"T2">>

ConcurrentSubmits(i) ==
    {CallRaise,
     Resp(200, PyDict([code |-> PyStr(<<"Success">>),
                       data |-> PyDict([task_id |-> PyStr(ConcurrentTaskId(i))])]))}

ConcurrentPolls ==
    {Resp(200, PyDict([code |-> PyStr(<<"Success">>), data |-> d])) :
             d \in {PyDict([status |-> PyStr(<<"Running">>)]),
                    PyDict([status |-> PyStr(<<"Fail">>), err_msg |-> PyStr(<<"denied">>)]),
                    PyDict([status |-> PyStr(<<"Success">>),
                            result |-> PyDict([summary |-> PyStr(<<"ok">>)])])}}

ConcurrentInit ==
    /\ now = 0
    /\ ToolsRegistryEmpty
    /\ pc = [i \in Invs |-> "idle"]
    /\ timeout \in ConcurrentTimeouts
    /\ poll_interval = [i \in Invs |-> 1]
    /\ sdk_client = [i \in Invs |-> FALSE]
    /\ task_id = [i \in Invs |-> PyNone]
    /\ start_time = [i \in Invs |-> 0]
    /\ wake = [i \in Invs |-> 0]
    /\ response = [i \in Invs |-> NoResponse]
    /\ submits = [i \in Invs |-> 0]
    /\ polls = [i \in Invs |-> 0]
    /\ sleeps = [i \in Invs |-> 0]
    /\ slept = [i \in Invs |-> {}]
    /\ polled = [i \in Invs |-> {}]
    /\ submit_at = [i \in Invs |-> 0]
    /\ entered_at = [i \in Invs |-> 0]
    /\ ended_at = [i \in Invs |-> 0]
    /\ poll_at = [i \in Invs |-> 0]
    /\ submit_tri = [i \in Invs |-> NoTri]
    /\ last_tri = [i \in Invs |-> NoTri]
    /\ history = [i \in Invs |-> << >>]
    /\ RegistryEmpty
    /\ CallersOff
    /\ ClientOff
    /\ BootOff

ConcurrentNext ==
    \/ Tick
    \/ \E i \in Invs : Execute(i)
    \/ \E i \in Invs : \E remote \in ConcurrentSubmits(i) : SubmitReturnsWith(i, remote)
    \/ \E i \in Invs : LoopHead(i)
    \/ \E i \in Invs : \E remote \in ConcurrentPolls : PollReturnsWith(i, remote)
    \/ \E i \in Invs : SleepReturns(i)

ConcurrentSpec == ConcurrentInit /\ [][ConcurrentNext]_vars

(* ------------------- what the remote platform answered ------------------ *)
\* The submit call succeeded: call_api returned true and the body's code is
\* Success.
SubmitOk(i) ==
    /\ pc[i] \notin {"off", "idle", "submitting"}
    /\ submit_tri[i].success
    /\ IsDict(submit_tri[i].response_data)
    /\ DictGet(submit_tri[i].response_data, "code", PyNone) = PyStr(<<"Success">>)

\* The submit call did not succeed: call_api returned false, or the body's
\* code is not Success.
SubmitFailed(i) ==
    /\ pc[i] \notin {"off", "idle", "submitting"}
    /\ \/ ~submit_tri[i].success
       \/ /\ IsDict(submit_tri[i].response_data)
          /\ DictGet(submit_tri[i].response_data, "code", PyNone) # PyStr(<<"Success">>)

\* The task id in the body of the submit's answer ("" when it has none).
SubmittedTaskId(i) ==
    LET body == submit_tri[i].response_data
        data == IF "data" \in DOMAIN body.v THEN body.v["data"] ELSE PyDict(EmptyDict)
    IN  IF "task_id" \in DOMAIN data.v THEN data.v["task_id"].v ELSE << >>

\* The task data in the body of the latest poll's answer.
LastData(i) == DictGet(last_tri[i].response_data, "data", PyDict(EmptyDict))

\* The result payload of the latest poll's answer (None when absent).
LastPayload(i) == DictGet(LastData(i), "result", PyNone)

\* The latest poll observed `what`.
LastObserved(i, what) ==
    /\ history[i] # << >>
    /\ history[i][Len(history[i])] = what

Ended(i) == pc[i] \in {"done", "raised"}

(* ------------------------------ properties ------------------------------ *)
\* The payload decodes as a structured result: it is a dict, or a text that
\* json.loads turns into a dict.
DecodableResult(p) ==
    \/ IsDict(p)
    \/ /\ IsStr(p)
       /\ JsonLoads(p.v).ok
       /\ IsDict(JsonLoads(p.v).value)

DecodedResult(p) == IF IsDict(p) THEN p.v ELSE JsonLoads(p.v).value.v

\* C1: success path.  When the submit succeeded with task id T and the
\* polls observed k pending statuses and then Success with a decodable
\* result, execute has returned code Success, task_id T and the decoded
\* result, after exactly k+1 polls and k sleeps, each of poll_interval.
C1_SuccessPath ==
    \A i \in Invs :
        (SubmitOk(i) /\ LastObserved(i, "Success") /\ DecodableResult(LastPayload(i)))
        => LET k == Len(history[i]) - 1
           IN  /\ pc[i] = "done"
               /\ response[i].code = SUCCESS
               /\ response[i].task_id = SubmittedTaskId(i)
               /\ response[i].result = DecodedResult(LastPayload(i))
               /\ \A j \in 1..k : history[i][j] = "pending"
               /\ polls[i] = k + 1
               /\ sleeps[i] = k
               /\ slept[i] \subseteq {poll_interval[i]}

\* C1 witness: running, running, success with a text payload, task id T1,
\* poll interval 1: three polls and two sleeps.
C1_Witness ==
    \E i \in Invs :
        /\ history[i] = <<"pending", "pending", "Success">>
        /\ LastPayload(i) = PyStr(TextObject)
        /\ SubmittedTaskId(i) = <<"T1">>
        /\ poll_interval[i] = 1
        /\ pc[i] = "done"
        /\ response[i].code = SUCCESS
        /\ response[i].result = [k |-> PyInt(1)]
        /\ polls[i] = 3
        /\ sleeps[i] = 2

\* C2: when the submit call does not succeed (call_api fails, or the body's
\* code is not Success), execute has returned TaskCreateFailed with an empty
\* task id and no poll was issued.
C2_SubmitFailure ==
    \A i \in Invs :
        SubmitFailed(i)
        => /\ pc[i] = "done"
           /\ response[i].code = TASK_CREATE_FAILED
           /\ response[i].task_id = << >>
           /\ polls[i] = 0
           /\ polled[i] = {}

\* C2 witness: the submit call was answered with a non-Success code.
C2_Witness ==
    \E i \in Invs :
        /\ SubmitFailed(i)
        /\ submit_tri[i].success
        /\ response[i].code = TASK_CREATE_FAILED
        /\ response[i].message = <<"denied">>

\* C3: when every poll observed a pending status until the loop ended,
\* execute has returned TaskTimeout, with a message that contains the task
\* id of the submit, and the response carries that task id; the timeout had
\* elapsed.
C3_Timeout ==
    \A i \in Invs :
        (Ended(i) /\ SubmitOk(i) /\ \A j \in DOMAIN history[i] : history[i][j] = "pending")
        => /\ pc[i] = "done"
           /\ response[i].code = TASK_TIMEOUT
           /\ Contains(response[i].message, SubmittedTaskId(i))
           /\ response[i].task_id = SubmittedTaskId(i)
           /\ ended_at[i] - start_time[i] >= timeout[i]

\* C3 witness: two polls, both pending, then the timeout, for task T2.
C3_Witness ==
    \E i \in Invs :
        /\ history[i] = <<"pending", "pending">>
        /\ SubmittedTaskId(i) = <<"T2">>
        /\ pc[i] = "done"
        /\ response[i].code = TASK_TIMEOUT
        /\ timeout[i] > 0

\* C4: every invocation of execute that ends returns a response whose code
\* is one of the six result codes; no exception escapes execute.
C4_NoRawException ==
    \A i \in Invs :
        /\ pc[i] # "raised"
        /\ pc[i] = "done" => response[i].code \in DiagnoseResultCode

\* C5: when a poll observes the task in its error state (status Fail), that
\* poll is the last one: execute has returned TaskExecuteFailed with the
\* remote error message (the default text when the answer has none) and the
\* task id of the submit; the outcome is never TaskTimeout.
C5_FailStopsPolling ==
    \A i \in Invs :
        \A j \in DOMAIN history[i] :
            history[i][j] = "Fail"
            => /\ j = Len(history[i])
               /\ polls[i] = j
               /\ pc[i] = "done"
               /\ response[i].code = TASK_EXECUTE_FAILED
               /\ response[i].task_id = SubmittedTaskId(i)
               /\ response[i].message =
                      IF "err_msg" \in DOMAIN LastData(i).v
                      THEN LastData(i).v["err_msg"].v
                      ELSE DefaultExecuteFailed.v

\* C5 witness: a pending poll, then a poll that observes Fail with the
\* remote message "denied".
C5_Witness ==
    \E i \in Invs :
        /\ history[i] = <<"pending", "Fail">>
        /\ pc[i] = "done"
        /\ response[i].code = TASK_EXECUTE_FAILED
        /\ response[i].message = <<"denied">>
        /\ response[i].task_id = <<"T1">>

\* C6: when a poll observes Success with a text payload that json.loads
\* cannot decode, execute has returned ResultParseFailed with the task id of
\* the submit and the raw payload text under "raw" in the result.
C6_ParseFailureKeepsRaw ==
    \A i \in Invs :
        (/\ SubmitOk(i)
         /\ LastObserved(i, "Success")
         /\ IsStr(LastPayload(i))
         /\ ~JsonLoads(LastPayload(i).v).ok)
        => /\ pc[i] = "done"
           /\ response[i].code = RESULT_PARSE_FAILED
           /\ response[i].task_id = SubmittedTaskId(i)
           /\ response[i].result = [raw |-> LastPayload(i)]

\* C6 witness: the payload "oops" of task T1.
C6_Witness ==
    \E i \in Invs :
        /\ LastObserved(i, "Success")
        /\ LastPayload(i) = PyStr(TextGarbage)
        /\ pc[i] = "done"
        /\ response[i].code = RESULT_PARSE_FAILED
        /\ response[i].task_id = <<"T1">>
        /\ response[i].result = [raw |-> PyStr(TextGarbage)]

\* C7 as claimed: the deadline runs from the moment the submit call is
\* issued, so no poll is issued once timeout seconds have elapsed since then.
C7_DeadlineFromSubmit ==
    \A i \in Invs :
        polls[i] > 0 => poll_at[i] - submit_at[i] < timeout[i]

\* C7 as amended: the deadline is a single one that runs from the moment the
\* submit call returned (the start of _wait_for_result): start_time is that
\* moment throughout the loop, no poll is issued once timeout seconds have
\* elapsed since then, and TaskTimeout is returned only after they have.
C7_DeadlineFromLoopStart ==
    \A i \in Invs :
        (SubmitOk(i) /\ pc[i] \in {"loop", "polling", "sleeping", "done", "raised"})
        => /\ start_time[i] = entered_at[i]
           /\ polls[i] > 0 => poll_at[i] - entered_at[i] < timeout[i]
           /\ (pc[i] = "done" /\ response[i].code = TASK_TIMEOUT)
              => ended_at[i] - entered_at[i] >= timeout[i]

\* C7 witness: the submit call took time, a poll was issued when the timeout
\* had already elapsed since the submit was issued, and the invocation ended
\* with TaskTimeout.
C7_Witness ==
    \E i \in Invs :
        /\ timeout[i] > 0
        /\ entered_at[i] > submit_at[i]
        /\ polls[i] > 0
        /\ poll_at[i] - submit_at[i] >= timeout[i]
        /\ pc[i] = "done"
        /\ response[i].code = TASK_TIMEOUT

\* C8: no retries.  An invocation issues exactly one submit call; a failed
\* submit ends it with TaskCreateFailed and no poll; the first failed poll
\* (call_api failed, or the body's code is not Success) is its last poll and
\* ends it with GetResultFailed.
C8_NoRetry ==
    \A i \in Invs :
        /\ pc[i] \notin {"off", "idle"} => submits[i] = 1
        /\ SubmitFailed(i)
           => pc[i] = "done" /\ response[i].code = TASK_CREATE_FAILED /\ polls[i] = 0
        /\ \A j \in DOMAIN history[i] :
               history[i][j] \in {"call_failed", "bad_code"}
               => /\ j = Len(history[i])
                  /\ polls[i] = j
                  /\ pc[i] = "done"
                  /\ response[i].code = GET_RESULT_FAILED

\* C8 witness: a pending poll, then a poll whose call failed.
C8_Witness ==
    \E i \in Invs :
        /\ history[i] = <<"pending", "call_failed">>
        /\ submits[i] = 1
        /\ polls[i] = 2
        /\ pc[i] = "done"
        /\ response[i].code = GET_RESULT_FAILED

\* C9: every response returned after a successful submit carries the task
\* id of that submit, and every response whose code is not Success carries a
\* non-empty message.
C9_TaskIdAndMessage ==
    \A i \in Invs :
        pc[i] = "done"
        => /\ SubmitOk(i) => response[i].task_id = SubmittedTaskId(i)
           /\ response[i].code # SUCCESS => Truthy(PyStr(response[i].message))

\* The registrations made for `name` in the registry of mcp/lib, in order.
RegsOf(name) ==
    SelectSeq(reg_log, LAMBDA e : e.api_name = name /\ e.kind \in {"framework", "sdk"})

\* The registrations made for `name` in the registry of tools/lib, in order.
ToolsRegsOf(name) ==
    SelectSeq(reg_log, LAMBDA e : e.api_name = name /\ e.kind = "tools_sdk")

\* The binding of the (only) registration of `kind` among regs.
BindingOf(regs, kind) ==
    (CHOOSE k \in DOMAIN regs : regs[k].kind = kind) 

\* C10: after one register_framework and one register_sdk for a name, in
\* either order, the registry holds for it the one route whose support mode
\* is BOTH and which holds both bindings.
C10_EitherOrderBoth ==
    \A n \in ApiNames :
        LET regs == RegsOf(n)
        IN  (Len(regs) = 2 /\ regs[1].kind # regs[2].kind)
            => LET f == regs[BindingOf(regs, "framework")].binding
                   b == regs[BindingOf(regs, "sdk")].binding
               IN  /\ n \in DOMAIN routes
                   /\ routes[n] =
                        APIRoute(n, BOTH,
                                 FrameworkRoute(f.url_pattern, f.method, f.service_name),
                                 SDKRoute(b.request_model, b.response_model,
                                          b.client_method))

\* C10 witness: one name registered framework-first, the other sdk-first,
\* with the same two bindings, and the two routes differ in the name only.
C10_Witness ==
    \E a \in ApiNames, b \in ApiNames :
        /\ a # b
        /\ Len(RegsOf(a)) = 2
        /\ Len(RegsOf(b)) = 2
        /\ RegsOf(a)[1].kind = "framework" /\ RegsOf(a)[2].kind = "sdk"
        /\ RegsOf(b)[1].kind = "sdk" /\ RegsOf(b)[2].kind = "framework"
        /\ RegsOf(a)[1].binding = RegsOf(b)[2].binding
        /\ RegsOf(a)[2].binding = RegsOf(b)[1].binding
        /\ routes[a].support_mode = BOTH
        /\ routes[b] = [routes[a] EXCEPT !.api_name = b]

\* The registrations of `kind` among regs, in order.
OfKind(regs, kind) == SelectSeq(regs, LAMBDA e : e.kind = kind)

\* The binding a route holds for `kind` after the registrations regs: the
\* one registered last for that kind, None when there was none.
LastFramework(regs) ==
    LET of == OfKind(regs, "framework")
    IN  IF Len(of) = 0 THEN PyNone
        ELSE LET b == of[Len(of)].binding
             IN  FrameworkRoute(b.url_pattern, b.method, b.service_name)

LastSdk(regs, kind) ==
    LET of == OfKind(regs, kind)
    IN  IF Len(of) = 0 THEN PyNone
        ELSE LET b == of[Len(of)].binding
             IN  SDKRoute(b.request_model, b.response_model, b.client_method)

\* The support mode after the registrations regs (at least one).
ModeAfter(regs) ==
    IF Len(OfKind(regs, "framework")) = 0 THEN SDK_ONLY
    ELSE IF Len(OfKind(regs, "sdk")) = 0 THEN FRAMEWORK_ONLY
    ELSE BOTH

\* In every state: a name has a route exactly when it was registered, and
\* the route holds, for each kind, the binding registered last for it.
C11_OneRoutePerName ==
    /\ DOMAIN routes = {n \in ApiNames : Len(RegsOf(n)) > 0}
    /\ DOMAIN tools_routes = {n \in ApiNames : Len(ToolsRegsOf(n)) > 0}
    /\ \A n \in DOMAIN routes :
          routes[n] = APIRoute(n, ModeAfter(RegsOf(n)), LastFramework(RegsOf(n)),
                               LastSdk(RegsOf(n), "sdk"))
    /\ \A n \in DOMAIN tools_routes :
          tools_routes[n] = [t |-> "route", api_name |-> n,
                             sdk_route |-> LastSdk(ToolsRegsOf(n), "tools_sdk")]

\* In every step: the registration touches the route of its name only,
\* sets the binding of its kind only, and never narrows a support mode.
C11_OnlyThatBinding ==
    /\ Len(reg_log') = Len(reg_log) + 1
    /\ LET e == reg_log'[Len(reg_log')]
       IN  /\ \A n \in DOMAIN routes :
                /\ n \in DOMAIN routes'
                /\ (n # e.api_name \/ e.kind = "tools_sdk") => routes'[n] = routes[n]
                /\ (n = e.api_name /\ e.kind = "framework")
                      => routes'[n].sdk_route = routes[n].sdk_route
                /\ (n = e.api_name /\ e.kind = "sdk")
                      => routes'[n].framework_route = routes[n].framework_route
                /\ routes'[n].support_mode \in {routes[n].support_mode, BOTH}
           /\ \A n \in DOMAIN tools_routes :
                /\ n \in DOMAIN tools_routes'
                /\ (n # e.api_name \/ e.kind # "tools_sdk")
                      => tools_routes'[n] = tools_routes[n]

\* C11: after any sequence of register_framework / register_sdk calls the
\* registry holds exactly one route per registered name; registering a kind
\* already present replaces that kind's binding only, leaving the other
\* kind's binding and every other route as they were; and a support mode is
\* never narrowed: once BOTH, it stays BOTH.
C11_RegistryContract == []C11_OneRoutePerName /\ [][C11_OnlyThatBinding]_vars

\* C11 witness: a route that is BOTH has a kind registered again with
\* another binding, and a second name is registered as well.
C11_Witness ==
    \E a \in ApiNames, b \in ApiNames :
        /\ a # b
        /\ Len(RegsOf(b)) > 0
        /\ Len(RegsOf(a)) = 3
        /\ RegsOf(a)[1].kind # RegsOf(a)[2].kind
        /\ RegsOf(a)[3].kind = "framework"
        /\ \E k \in 1..2 : /\ RegsOf(a)[k].kind = "framework"
                            /\ RegsOf(a)[k].binding # RegsOf(a)[3].binding
        /\ routes[a].support_mode = BOTH
        /\ routes[a].framework_route = LastFramework(RegsOf(a))

\* The callers of `kinds` that have made their registration.
Registered(kinds) ==
    {c \in Callers : caller_pc[c] \in {"suspended", "done"} /\ caller_job[c].kind \in kinds}

\* The name the callers register.
CallersName == caller_job[1].api_name

LastCallOn(kind) == last_op.op = "call" /\ backends[last_op.slot].t = kind

\* The registry the client of the latest call looks routes up in.
LastTable == RegistryOf(backends[last_op.slot])

\* (False, None, <a message that is not empty>)
FailureShape(tri) ==
    ~tri.success /\ IsNone(tri.response_data) /\ Truthy(tri.error_msg)

\* The failure that says `api_name` has no route for the transport.
RoutingError(tri, api_name) ==
    /\ FailureShape(tri)
    /\ tri.error_msg.v \in {<<"api ", api_name, " has no SDK route registered">>,
                            <<"api ", api_name, " has no Framework route registered">>}

\* The failure that says the discovery client was given a request that is
\* not a dict.
RequestTypeError(tri, request) ==
    /\ FailureShape(tri)
    /\ tri.error_msg.v = <<"a Framework call needs a dict, got: ", TypeName(request)>>

\* C13 as stated: for every operation name that is not registered, get_route
\* returns no route and call_api on a client the factory returned fails with
\* the routing error that names the operation, making no remote call.
C13_UnregisteredIsRoutingError ==
    (last_op.op = "call" /\ last_op.api_name \notin DOMAIN LastTable)
        => /\ IsNone(GetRoute(LastTable, last_op.api_name))
           /\ RoutingError(last_op.tri, last_op.api_name)
           /\ ~last_op.called

\* C13 as amended: for every operation name that is not registered,
\* get_route returns no route and call_api on a client the factory returned
\* returns a failure and makes no remote call; the failure is the routing
\* error that names the operation, except that the discovery client, which
\* checks the request's type before the route, answers a request that is
\* neither absent nor a dict with the request-type error.
C13_UnregisteredFails ==
    (last_op.op = "call" /\ last_op.api_name \notin DOMAIN LastTable)
        => /\ IsNone(GetRoute(LastTable, last_op.api_name))
           /\ FailureShape(last_op.tri)
           /\ ~last_op.called
           /\ IF /\ LastCallOn("framework_client")
                 /\ ~IsNone(last_op.request)
                 /\ ~IsDict(last_op.request)
              THEN RequestTypeError(last_op.tri, last_op.request)
              ELSE RoutingError(last_op.tri, last_op.api_name)

\* C13 witness: a discovery client the factory made for the unregistered
\* name was called with that name and a dict, and answered with the routing
\* error.
C13_Witness ==
    /\ LastCallOn("framework_client")
    /\ last_op.api_name = "list_pods"
    /\ IsDict(last_op.request)
    /\ RoutingError(last_op.tri, "list_pods")
    /\ ~last_op.called

\* The route of the latest call is registered with the one binding `mode`.
LastRouteIs(mode) ==
    /\ backends[last_op.slot].registry = "mcp"
    /\ last_op.api_name \in DOMAIN routes
    /\ routes[last_op.api_name].support_mode = mode

\* C14 as stated: a route with a discovery binding only, called through the
\* direct-API client, fails with the routing error and no remote call is
\* made; and so does a route with a direct-API binding only called through
\* the discovery client.
C14_WrongTransportIsRoutingError ==
    /\ (LastCallOn("sdk_client") /\ LastRouteIs(FRAMEWORK_ONLY))
          => RoutingError(last_op.tri, last_op.api_name) /\ ~last_op.called
    /\ (LastCallOn("framework_client") /\ LastRouteIs(SDK_ONLY))
          => RoutingError(last_op.tri, last_op.api_name) /\ ~last_op.called

\* C14 as amended: a route with a discovery binding only, called through the
\* direct-API client, fails with the routing error and no remote call is
\* made; a route with a direct-API binding only, called through the
\* discovery client, fails and no remote call is made, with the routing
\* error when the request is absent or a dict and with the request-type
\* error otherwise.
C14_WrongTransportFails ==
    /\ (LastCallOn("sdk_client") /\ LastRouteIs(FRAMEWORK_ONLY))
          => RoutingError(last_op.tri, last_op.api_name) /\ ~last_op.called
    /\ (LastCallOn("framework_client") /\ LastRouteIs(SDK_ONLY))
          => /\ ~last_op.called
             /\ IF IsNone(last_op.request) \/ IsDict(last_op.request)
                THEN RoutingError(last_op.tri, last_op.api_name)
                ELSE RequestTypeError(last_op.tri, last_op.request)

\* C14 witness: the discovery client was called for the route that has a
\* direct-API binding only, with the request type that binding declares,
\* and answered with the request-type error without a remote call.
C14_Witness ==
    /\ LastCallOn("framework_client")
    /\ LastRouteIs(SDK_ONLY)
    /\ last_op.request.t = "tea"
    /\ last_op.request.model = routes[last_op.api_name].sdk_route.request_model
    /\ RequestTypeError(last_op.tri, last_op.request)
    /\ ~last_op.called

(* -------------------- what create_client returned ----------------------- *)
\* The latest operation is a create_client of the factory of `lib`.
LastCreateBy(lib) == last_op.op = "create" /\ last_op.factory = lib

\* C15: for a create_client of mcp/lib given an operation name, a route
\* registered FRAMEWORK_ONLY selects the discovery client and a route
\* registered SDK_ONLY the direct-API client, whatever mode was asked for;
\* for a route supporting BOTH, or a name that is not registered, the
\* deploy_mode asked for, or SERVICE_CONFIG.deploy_mode when none was,
\* decides.  A create_client that raises had selected the discovery client.
C15_FactorySelection ==
    (LastCreateBy("mcp") /\ last_op.api_name # "")
        => LET route == GetRoute(routes, last_op.api_name)
               asked == IF IsNone(last_op.deploy_mode) THEN config.deploy_mode
                        ELSE last_op.deploy_mode
               expected ==
                   IF ~IsNone(route) /\ route.support_mode = FRAMEWORK_ONLY
                   THEN "framework_client"
                   ELSE IF ~IsNone(route) /\ route.support_mode = SDK_ONLY
                   THEN "sdk_client"
                   ELSE IF asked = ALIBABACLOUD_SDK THEN "sdk_client"
                   ELSE "framework_client"
           IN  IF last_op.made.kind = "return"
               THEN last_op.made.backend.t = expected
               ELSE /\ expected = "framework_client"
                    /\ IsNone(last_op.uid) \/ last_op.made.why = "init_framework"

\* C15 witness: the direct-API mode was asked for with the name of a route
\* registered FRAMEWORK_ONLY, and the factory returned the discovery client.
C15_Witness ==
    /\ LastCreateBy("mcp")
    /\ last_op.api_name = "list_clusters"
    /\ routes["list_clusters"].support_mode = FRAMEWORK_ONLY
    /\ last_op.deploy_mode = ALIBABACLOUD_SDK
    /\ last_op.made.kind = "return"
    /\ last_op.made.backend.t = "framework_client"

\* The credential mode a create_client of tools/lib was asked for: the mode
\* argument, or SERVICE_CONFIG.openapi.type when none was given.
LastAskedMode == PyOr(KwGet(last_op.kwargs, "mode"), config.openapi.type)

\* C16: when the factory of tools/lib is asked for a client in mode
\* ram_role_arn, the role has been exchanged for temporary credentials before
\* the client is made, and the client it returns is in mode sts and holds
\* the exchanged key id, secret and token; when the exchange raises, so does
\* create_client.  No client this factory returned is in mode ram_role_arn.
C16_RoleExchanged ==
    /\ (LastCreateBy("tools") /\ LastAskedMode = RAM_ROLE_ARN)
          => IF last_op.exchange.kind = "ok"
             THEN /\ last_op.made.kind = "return"
                  /\ last_op.made.exchanged
                  /\ last_op.made.backend.mode = STS
                  /\ last_op.made.backend.access_key_id = last_op.exchange.access_key_id
                  /\ last_op.made.backend.access_key_secret =
                         last_op.exchange.access_key_secret
                  /\ last_op.made.backend.security_token = last_op.exchange.security_token
                  /\ last_op.made.backend.client = 0
             ELSE last_op.made.kind = "raise"
    /\ \A b \in Slots :
          (backends[b].t = "sdk_client" /\ backends[b].registry = "tools")
              => backends[b].mode # RAM_ROLE_ARN

\* C16 witness: mode ram_role_arn was asked for by argument, the exchange
\* answered, and the client returned is in mode sts with the exchanged token.
C16_Witness ==
    /\ LastCreateBy("tools")
    /\ KwGet(last_op.kwargs, "mode") = RAM_ROLE_ARN
    /\ last_op.exchange = Exchanged
    /\ last_op.made.kind = "return"
    /\ backends[last_op.slot].mode = STS
    /\ backends[last_op.slot].security_token = Exchanged.security_token

\* A call_api that failed because the credentials of its client did not
\* resolve when the signed client was to be constructed.
FailedOnCredentials(tri) ==
    tri = Failure(<<"API call failed, error: ", "Invalid mode: {mode}">>)

\* C17 as stated: create_client returns no client whose credentials cannot
\* be resolved (a mode that is neither access_key nor sts, or sts without a
\* security token); a create_client whose exchange failed returns nothing;
\* and no call_api fails on credentials that did not resolve.
C17_UnresolvedFailsAtConstruction ==
    /\ \A b \in Slots :
          backends[b].t = "sdk_client"
              => CredentialsResolve(backends[b].mode, backends[b].security_token)
    /\ (LastCreateBy("tools") /\ LastAskedMode = RAM_ROLE_ARN
           /\ last_op.exchange = ExchangeFailed)
          => last_op.made.kind = "raise"
    /\ LastCallOn("sdk_client") => ~FailedOnCredentials(last_op.tri)

\* The remote side answered the latest call with status 200.
Answered200(remote) ==
    \/ remote.kind = "resp" /\ remote.status_code = 200
    \/ remote.kind = "fw_resp" /\ remote.status = 200

\* C18: every call_api of either client returns (True, payload, None) or
\* (False, None, a message that is not empty); it returns True exactly when
\* the remote call was made and answered with status 200, so another
\* status, an exception of the remote call and a signed client that could
\* not be constructed all come back in the False shape.
C18_TriState ==
    last_op.op = "call"
        => /\ IF last_op.tri.success
              THEN IsNone(last_op.tri.error_msg)
              ELSE FailureShape(last_op.tri)
           /\ last_op.tri.success <=> (last_op.called /\ Answered200(last_op.remote))

\* C18 witness: the remote call of a direct-API client raised, and call_api
\* returned the False shape.
C18_Witness ==
    /\ LastCallOn("sdk_client")
    /\ last_op.called
    /\ last_op.remote.kind = "call_raise"
    /\ FailureShape(last_op.tri)

\* The latest call gave a direct-API client, for an operation that has a
\* direct-API binding, a request that is absent, is not a TeaModel, or is
\* not an instance of the request class the binding declares.
LastRequestUnfit ==
    /\ LastCallOn("sdk_client")
    /\ LET sdk_route == ToolsGetSdkRoute(LastTable, last_op.api_name)
       IN  /\ ~IsNone(sdk_route)
           /\ \/ IsNone(last_op.request)
              \/ last_op.request.t # "tea"
              \/ sdk_route.request_model \notin Bases(last_op.request.model)

\* C19: a direct-API client answers a request that is absent, is not a
\* TeaModel or is not an instance of the request class of the operation's
\* binding with a failure; for such a request the signed client is not
\* constructed and the remote call is not made.
C19_RejectsUnfitRequests ==
    LastRequestUnfit
        => /\ FailureShape(last_op.tri)
           /\ ~last_op.called
           /\ last_op.remote = NoRemote
           /\ (backends[last_op.slot].client # 0) = last_op.built_before

\* C19 witness: a direct-API client without a signed client was given the
\* request class of another operation; it answered with a failure and still
\* has no signed client.
C19_Witness ==
    /\ LastRequestUnfit
    /\ last_op.request.t = "tea"
    /\ ~last_op.built_before
    /\ backends[last_op.slot].client = 0
    /\ FailureShape(last_op.tri)
    /\ ~last_op.called

\* The call `op` gave its direct-API client a request that passes the route
\* and type checks of call_api.
RequestFit(op) ==
    LET sdk_route == ToolsGetSdkRoute(RegistryOf(backends[op.slot]), op.api_name)
    IN  /\ ~IsNone(sdk_route)
        /\ ~IsNone(op.request)
        /\ op.request.t = "tea"
        /\ sdk_route.request_model \in Bases(op.request.model)

\* No two direct-API clients hold the same signed client.
C20_NeverShared ==
    \A a, b \in Slots :
        (a # b /\ backends[a].t = "sdk_client" /\ backends[b].t = "sdk_client"
              /\ backends[a].client # 0)
            => backends[a].client # backends[b].client

\* One step, seen from each direct-API client: it is made without a signed
\* client; a signed client it has stays the one it has; it gets one only in a
\* call_api on it whose request passes the checks, and that one is new; and
\* such a call gives it one unless constructing the signed client raises.
C20_LazyOnce ==
    \A b \in Slots :
        /\ (backends[b] = NoBackend /\ backends'[b].t = "sdk_client")
              => backends'[b].client = 0
        /\ backends[b].t = "sdk_client"
              => /\ backends[b].client # 0 => backends'[b].client = backends[b].client
                 /\ (backends[b].client = 0 /\ backends'[b].client # 0)
                       => /\ last_op'.op = "call" /\ last_op'.slot = b
                          /\ RequestFit(last_op')
                          /\ \A a \in Slots :
                                backends[a].t = "sdk_client"
                                    => backends[a].client # backends'[b].client
                 /\ (/\ backends[b].client = 0
                     /\ last_op'.op = "call" /\ last_op'.slot = b
                     /\ RequestFit(last_op')
                     /\ CredentialsResolve(backends[b].mode, backends[b].security_token)
                     /\ last_op'.remote.kind # "ctor_raise")
                       => backends'[b].client # 0

\* C20: every direct-API client has no signed client when it is made, gets
\* it in the first call_api that passes the route and type checks, keeps
\* that one in every later call, and shares it with no other instance.
C20_LazyPerInstance == []C20_NeverShared /\ [][C20_LazyOnce]_vars

\* C20 witness: two direct-API clients each hold a signed client of their
\* own, and the latest call_api reached the remote side with the signed
\* client its instance already had.
C20_Witness ==
    /\ \A b \in Slots : backends[b].t = "sdk_client" /\ backends[b].client # 0
    /\ backends[1].client # backends[2].client
    /\ last_op.op = "call"
    /\ last_op.built_before
    /\ last_op.called

(* ---------------------- concurrent invocations -------------------------- *)
\* The code an invocation that ended returns for what it observed itself:
\* the answer to its own submit and to its own latest poll.
OwnCode(i) ==
    IF SubmitFailed(i) THEN TASK_CREATE_FAILED
    ELSE IF LastObserved(i, "Fail") THEN TASK_EXECUTE_FAILED
    ELSE IF LastObserved(i, "call_failed") \/ LastObserved(i, "bad_code")
    THEN GET_RESULT_FAILED
    ELSE IF LastObserved(i, "Success")
    THEN IF DecodableResult(LastPayload(i)) THEN SUCCESS ELSE RESULT_PARSE_FAILED
    ELSE TASK_TIMEOUT

\* C21: of two invocations of execute that interleave at their awaits, each
\* polls only the task id its own submit returned, issues its polls and
\* times out by the time since its own submit returned against its own
\* timeout, and returns a response with its own task id whose code follows
\* from the answers it got itself, whatever the other one got.
C21_Independent ==
    \A i \in Invs :
        /\ \A p \in polled[i] : SubmitOk(i) /\ p = PyStr(SubmittedTaskId(i))
        /\ polls[i] > 0 => poll_at[i] - entered_at[i] < timeout[i]
        /\ pc[i] # "raised"
        /\ pc[i] = "done"
              => /\ response[i].code = OwnCode(i)
                 /\ response[i].task_id =
                        (IF SubmitOk(i) THEN SubmittedTaskId(i) ELSE << >>)
                 /\ response[i].code = TASK_TIMEOUT
                        => ended_at[i] - entered_at[i] >= timeout[i]

\* C21 witness: the two invocations overlapped; the first was given task T1
\* and returned Success for T1, the second was given T2, polled T2 only and
\* timed out after its own two seconds, later than the first one ended.
C21_Witness ==
    /\ pc = [i \in Invs |-> "done"]
    /\ submit_at[2] < ended_at[1] /\ submit_at[1] < ended_at[2]
    /\ response[1].code = SUCCESS /\ response[1].task_id = <<"T1">>
    /\ polled[1] = {PyStr(<<"T1">>)}
    /\ response[2].code = TASK_TIMEOUT /\ response[2].task_id = <<"T2">>
    /\ polled[2] = {PyStr(<<"T2">>)}
    /\ entered_at[2] > entered_at[1]
    /\ ended_at[2] - entered_at[2] >= timeout[2]

(* ------------------------- the registry's routes ------------------------ *)
\* C22: in every state reached by register_framework and register_sdk, each
\* route's support mode says which bindings it holds: BOTH, the discovery
\* and the direct-API binding; FRAMEWORK_ONLY, the discovery binding and no
\* direct-API binding; SDK_ONLY, the direct-API binding and no discovery
\* binding.
C22_ModeMatchesBindings ==
    \A n \in DOMAIN routes :
        LET route == routes[n]
        IN  /\ route.support_mode \in {BOTH, FRAMEWORK_ONLY, SDK_ONLY}
            /\ ~IsNone(route.framework_route)
                  <=> route.support_mode \in {BOTH, FRAMEWORK_ONLY}
            /\ ~IsNone(route.sdk_route) <=> route.support_mode \in {BOTH, SDK_ONLY}

\* C22 witness: three registrations left one route BOTH with its two
\* bindings and another FRAMEWORK_ONLY with the discovery binding alone.
C22_Witness ==
    \E a \in DOMAIN routes, b \in DOMAIN routes :
        /\ Len(reg_log) = 3
        /\ routes[a].support_mode = BOTH
        /\ ~IsNone(routes[a].framework_route) /\ ~IsNone(routes[a].sdk_route)
        /\ routes[b].support_mode = FRAMEWORK_ONLY
        /\ ~IsNone(routes[b].framework_route) /\ IsNone(routes[b].sdk_route)

(* ------------------ threads constructing the registry ------------------- *)
\* C23 as stated: whichever way threads that call APIRegistry() for the
\* first time interleave, every one of them obtains the same instance, the
\* instance has its _routes table when a thread has obtained it, and no
\* get_route on an obtained registry raises.
C23_SameReadyInstance ==
    \A t \in Threads :
        /\ new_pc[t] \in {"returned", "looked"}
              => /\ obtained[t] = instance.id /\ instance.id # 0
                 /\ \A u \in Threads :
                       new_pc[u] \in {"returned", "looked"} => obtained[u] = obtained[t]
                 /\ instance.routes # "unset"
        /\ looked[t] # "AttributeError"

(* ------------------------ routes are never removed ---------------------- *)
\* In every step, whatever it is: a name that has a route in either
\* registry has one afterwards.
C24_RoutesKept ==
    /\ \A n \in DOMAIN routes :
          n \in DOMAIN routes' /\ ~IsNone(GetRoute(routes', n))
    /\ \A n \in DOMAIN tools_routes :
          n \in DOMAIN tools_routes' /\ ~IsNone(ToolsGetRoute(tools_routes', n))

\* C24: the registry is append-only: once an operation name has been
\* registered, get_route for that name returns a route in every later
\* state, whatever registrations follow.
C24_AppendOnly == [][C24_RoutesKept]_vars

\* A name registered first is still routed after registrations of the other
\* name and a second registration of its own, in both registries.
C24_Witness ==
    /\ Len(reg_log) = MaxRegs
    /\ \E a, b \in 1..Len(reg_log) :
          /\ a < b
          /\ reg_log[a].api_name # reg_log[b].api_name
          /\ reg_log[a].kind # "tools_sdk" /\ reg_log[b].kind # "tools_sdk"
          /\ ~IsNone(GetRoute(routes, reg_log[a].api_name))
    /\ \E a, b \in 1..Len(reg_log) :
          /\ a < b
          /\ reg_log[a].api_name # reg_log[b].api_name
          /\ reg_log[a].kind = "tools_sdk" /\ reg_log[b].kind = "tools_sdk"
          /\ ~IsNone(ToolsGetRoute(tools_routes, reg_log[a].api_name))

(* ---------------------- the framework starts once ----------------------- *)
\* The start sequence has completed at most once, the flag is set only
\* after it has, and a thread is in the start sequence only with the lock
\* and the flag unset.
C25_AtMostOnce ==
    /\ framework_starts <= 1
    /\ framework_initialized => framework_starts = 1
    /\ \A t \in Threads :
          init_pc[t] \in {"line 36", "line 45"}
             => init_lock = t /\ ~framework_initialized
    /\ \A t \in Threads :
          init_pc[t] = "line 36" => framework_starts = 0

\* In every step: once the flag is set, no start is made, the flag stays
\* set, and a call that ends ends by the early return; a call ends with the
\* error exactly when its start raised, leaving the flag unset and the lock
\* free; and a call made while the flag is unset goes on to the start.
C25_Step ==
    /\ framework_initialized
          => /\ framework_initialized'
             /\ framework_starts' = framework_starts
             /\ \A t \in Threads : init_pc'[t] \in {"idle", "line 23", "line 27", "line 28"}
             /\ \A t \in Threads :
                   init_ended'[t] # init_ended[t] => init_ended'[t] \in {"no", "skipped"}
    /\ \A t \in Threads :
          (init_ended'[t] = "raised" /\ init_ended[t] # "raised")
             => /\ init_pc[t] = "line 36" /\ init_pc'[t] = "idle"
                /\ ~framework_initialized'
                /\ framework_starts' = framework_starts
                /\ init_lock' = 0
    /\ \A t \in Threads :
          (init_pc[t] = "line 36" /\ init_pc'[t] = "idle") => init_ended'[t] = "raised"
    /\ \A t \in Threads :
          (~framework_initialized /\ init_pc[t] = "line 23" /\ init_pc'[t] # "line 23")
             => init_pc'[t] = "line 27"
    /\ \A t \in Threads :
          (~framework_initialized /\ init_pc[t] = "line 28" /\ init_pc'[t] # "line 28")
             => init_pc'[t] = "line 36"

\* C25: for every interleaving of concurrent init_framework calls, the
\* framework start sequence completes successfully at most once per process;
\* after one successful initialization every later call returns without
\* starting it again; and if the start sequence raises, the error
\* propagates to the caller and the initialized flag stays false so that a
\* later call attempts initialization again.
C25_StartsOnce == []C25_AtMostOnce /\ [][C25_Step]_vars

\* One thread's start raised, another's then succeeded, and a third call,
\* which had passed the first test before the flag was set, returned from
\* the test inside the lock.
C25_Witness ==
    /\ framework_initialized /\ framework_starts = 1
    /\ init_calls = MaxInitCalls
    /\ \E t, u, v \in Threads :
          /\ init_ended[t] = "raised"
          /\ init_ended[u] = "returned"
          /\ init_ended[v] = "skipped"
    /\ \A t \in Threads : init_pc[t] = "idle"

(* --------------------------- execute terminates ------------------------- *)
\* Every invocation of execute ends: it returns or it raises.
LoopEnds == \A i \in Invs : (pc[i] = "idle") ~> (pc[i] \in {"done", "raised"})

\* C26 as stated: if every remote call returns and the clock advances,
\* every invocation of execute eventually returns a Result, for every
\* timeout, every poll interval and every sequence of remote answers.
C26_EventuallyResult == \A i \in Invs : (pc[i] = "idle") ~> (pc[i] = "done")

(* ----------------------- the timeout and the polls ---------------------- *)
\* Invocation i has entered _wait_for_result.
EnteredLoop(i) == task_id[i] # PyNone

\* The latest poll was started inside the timeout, counted from the loop's
\* start; with a timeout of zero or less no poll is started, and the
\* invocation, once it has ended, has returned TaskTimeout.
C27_PollsInsideTimeout ==
    \A i \in Invs :
        /\ polls[i] > 0
              => /\ EnteredLoop(i)
                 /\ timeout[i] > 0
                 /\ poll_at[i] - start_time[i] < timeout[i]
        /\ (EnteredLoop(i) /\ timeout[i] <= 0)
              => /\ polls[i] = 0
                 /\ pc[i] \in {"loop", "done"}
                 /\ pc[i] = "done" => response[i].code = TASK_TIMEOUT

\* In every step: a poll is started only at a loop check made inside the
\* timeout, and TaskTimeout is returned only at a loop check made when the
\* elapsed time is at least the timeout.
C27_OnlyAtTheCheck ==
    \A i \in Invs :
        /\ polls'[i] # polls[i]
              => /\ pc[i] = "loop"
                 /\ now - start_time[i] < timeout[i]
        /\ (pc[i] # "done" /\ pc'[i] = "done" /\ response'[i].code = TASK_TIMEOUT)
              => /\ pc[i] = "loop"
                 /\ now - start_time[i] >= timeout[i]
                 /\ polls'[i] = polls[i]

\* C27: in the poll loop of _wait_for_result no poll call is started once
\* the time elapsed since the loop's start is at least the timeout,
\* TaskTimeout is returned only at such a check, and with a timeout of zero
\* or less the invocation returns TaskTimeout without issuing any poll.
C27_TimeoutGuardsPolls == []C27_PollsInsideTimeout /\ [][C27_OnlyAtTheCheck]_vars

\* With a timeout of zero the submit created a task, some time later the
\* loop was entered, and the invocation returned TaskTimeout with no poll.
C27_Witness ==
    \E i \in Invs :
        /\ timeout[i] = 0
        /\ EnteredLoop(i)
        /\ entered_at[i] > submit_at[i]
        /\ pc[i] = "done"
        /\ response[i].code = TASK_TIMEOUT
        /\ polls[i] = 0

(* ------------------------ the task id of the polls ---------------------- *)
\* C28 as stated: execute starts polling only with the non-empty task id
\* that the submit call returned; a submit answer that reports Success but
\* carries no task id never leads to a poll call with an empty task id.
C28_PollsHaveTaskId ==
    \A i \in Invs :
        /\ PyStr(<< >>) \notin polled[i]
        /\ (SubmitOk(i) /\ SubmittedTaskId(i) = << >>) => polls[i] = 0

(* ------------------------- what the adapter returns --------------------- *)
\* C29 as stated: a diagnostic tool adapter returns the orchestrator's
\* Result unchanged, and it reports TaskCreateFailed with an empty task id
\* only when no remote task was created: once the submit call has returned
\* a task id, the adapter's response never has code TaskCreateFailed.
C29_AdapterKeepsResult ==
    \A i \in Invs :
        Ended(i)
        => /\ pc[i] = "done" => AdapterReturns(pc[i], response[i]) = response[i]
           /\ (SubmitOk(i) /\ SubmittedTaskId(i) # << >>)
                 => AdapterReturns(pc[i], response[i]).code # TASK_CREATE_FAILED

\* The half of C29 that holds: what execute returns the adapter returns
\* unchanged, and when execute returns after the submit call returned a
\* task id, the response is not TaskCreateFailed.
AdapterPassesReturnedResult ==
    \A i \in Invs :
        pc[i] = "done"
        => /\ AdapterReturns(pc[i], response[i]) = response[i]
           /\ (SubmitOk(i) /\ SubmittedTaskId(i) # << >>)
                 => response[i].code # TASK_CREATE_FAILED

(* --------------------------- the role assumed --------------------------- *)
\* C30 as stated: in role-assumption mode the role identifier that
\* create_client of tools/lib passes to the credential exchange is the
\* configured role ARN, and it does not depend on the security_token
\* argument.
C30_RoleIsConfigured ==
    (LastCreateBy("tools") /\ LastAskedMode = RAM_ROLE_ARN)
        => last_op.descriptor.role_arn = config.openapi.role_arn

\* Without a security_token argument the role passed is the configured one.
RoleIsConfiguredWithoutToken ==
    (LastCreateBy("tools") /\ LastAskedMode = RAM_ROLE_ARN
       /\ IsNone(KwGet(last_op.kwargs, "security_token")))
        => last_op.descriptor.role_arn = config.openapi.role_arn

====
